---- MODULE Spec2Model ----
(***************************************************************************)
(* Model of the trip-type-aware charter quoting handler of                 *)
(* src/api/calculate.js (lines 393-1161): request validation, the cached   *)
(* airport resolver, the fleet filter, the pricing of one-way, round-trip  *)
(* and multi-leg trips and the ranking of the quotes.                      *)
(*                                                                         *)
(* Representation choices                                                  *)
(*  - A JavaScript string is a sequence of one-character strings, so that  *)
(*    normalisation, the code pattern and substring search are computed.   *)
(*  - Airports of the directory lie on one meridian; a coordinate is the   *)
(*    arc length along it in 1/100 km.  On a meridian dLon = 0 and the     *)
(*    haversine formula reduces to R * |dLat|, the absolute difference of  *)
(*    the arc lengths.  Distances are therefore integers in 1/100 km.      *)
(*  - An unrounded amount of money or time is an exact fraction            *)
(*    [n |-> numerator, d |-> denominator] with d > 0 (the floating point  *)
(*    error of the JavaScript doubles is not modelled).                    *)
(*  - A JavaScript number that may be NaN, null or undefined is a record   *)
(*    [k |-> kind, v |-> value].                                           *)
(***************************************************************************)
EXTENDS Integers, Sequences, FiniteSets, TLC

(***************************************************************************)
(* Strings                                                                 *)
(***************************************************************************)
UpperSeq ==
  <<"A","B","C","D","E","F","G","H","I","J","K","L","M",
    "N","O","P","Q","R","S","T","U","V","W","X","Y","Z">>

LowerSeq ==
  <<"a","b","c","d","e","f","g","h","i","j","k","l","m",
    "n","o","p","q","r","s","t","u","v","w","x","y","z">>

\* precomposed accented letters (written here as letter plus accent sign, one
\* character of the string each) and the base letter NFD leaves once the
\* combining marks U+0300..U+036F are removed
AccentSeq == <<"a`","e`","e'","i`","o`","u`","A`","E`","E'">>

BaseSeq == <<"a","e","e","i","o","u","A","E","E">>

MapChar(c, from, to) ==
  IF \E i \in 1..Len(from) : from[i] = c
  THEN to[CHOOSE i \in 1..Len(from) : from[i] = c]
  ELSE c

MapStr(s, from, to) == [i \in 1..Len(s) |-> MapChar(s[i], from, to)]

toLowerCase(s) == MapStr(s, UpperSeq, LowerSeq)

toUpperCase(s) == MapStr(s, LowerSeq, UpperSeq)

RECURSIVE trimStart(_)
trimStart(s) ==
  IF Len(s) > 0 /\ s[1] = " " THEN trimStart(Tail(s)) ELSE s

RECURSIVE trimEnd(_)
trimEnd(s) ==
  IF Len(s) > 0 /\ s[Len(s)] = " " THEN trimEnd(SubSeq(s, 1, Len(s) - 1)) ELSE s

trim(s) == trimEnd(trimStart(s))

\* str.normalize("NFD").replace(combining marks, "").toLowerCase().trim()
normalizeInput(str) == trim(toLowerCase(MapStr(str, AccentSeq, BaseSeq)))

\* /^[A-Z]{4}$/.test(cityName)
IsICAOPattern(cityName) ==
  /\ Len(cityName) = 4
  /\ \A i \in 1..4 : \E j \in 1..Len(UpperSeq) : UpperSeq[j] = cityName[i]

\* a column that is NULL in the table, null in the row the query returns
NullColumn == <<"null">>

\* column ILIKE %pat% : case-insensitive substring match, never true of NULL
ILikeContains(column, pat) ==
  LET c == toLowerCase(column)
      p == toLowerCase(pat)
  IN /\ column # NullColumn
     /\ \E i \in 0..(Len(c) - Len(p)) : SubSeq(c, i + 1, i + Len(p)) = p

\* String.prototype.includes
includes(s, sub) ==
  \E i \in 0..(Len(s) - Len(sub)) : SubSeq(s, i + 1, i + Len(sub)) = sub

(***************************************************************************)
(* The airport directory (table "Airport 2") and the fleet (table "jet")   *)
(***************************************************************************)
S_LIML == <<"L","I","M","L">>

S_LIMC == <<"L","I","M","C">>

S_LFPB == <<"L","F","P","B">>

S_LIRA == <<"L","I","R","A">>

S_LIRF == <<"L","I","R","F">>

S_ROMA == <<"R","O","M","A">>

S_ZZZZ == <<"Z","Z","Z","Z">>

S_Milano == <<"M","i","l","a","n","o">>

S_Paris == <<"P","a","r","i","s">>

S_Roma == <<"R","o","m","a">>

S_LIMW == <<"L","I","M","W">>

S_Aosta == <<"A","o","s","t","a">>

S_EHAM == <<"E","H","A","M">>

\* rows in table order; lat is the arc length along the meridian in 1/100 km;
\* the table holds the three classifications the resolver asks for, one row
\* without a municipality, a city with a large airport in a neighbouring
\* municipality and a medium airport of its own, and an airport 830 km from
\* LIML
Directory ==
  << [ident |-> S_LIMC, name |-> <<"M","a","l","p","e","n","s","a">>,
      type |-> "large_airport", municipality |-> S_Milano,
      iso_country |-> <<"I","T">>, region |-> <<"L","o","m","b","a","r","d","i","a">>,
      lat |-> 4000],
     [ident |-> S_LIML, name |-> <<"L","i","n","a","t","e">>,
      type |-> "medium_airport", municipality |-> S_Milano,
      iso_country |-> <<"I","T">>, region |-> <<"L","o","m","b","a","r","d","i","a">>,
      lat |-> 0],
     [ident |-> S_LFPB,
      name |-> <<"P","a","r","i","s","-","L","e"," ","B","o","u","r","g","e","t">>,
      type |-> "medium_airport", municipality |-> S_Paris,
      iso_country |-> <<"F","R">>, region |-> <<"I","l","e","-","d","e","-","F","r","a","n","c","e">>,
      lat |-> 62500],
     [ident |-> S_LIRA, name |-> <<"C","i","a","m","p","i","n","o">>,
      type |-> "medium_airport", municipality |-> S_Roma,
      iso_country |-> <<"I","T">>, region |-> <<"L","a","z","i","o">>,
      lat |-> 0 - 50000],
     [ident |-> S_LIRF, name |-> <<"F","i","u","m","i","c","i","n","o">>,
      type |-> "large_airport", municipality |-> S_Roma,
      iso_country |-> <<"I","T">>, region |-> <<"L","a","z","i","o">>,
      lat |-> 0 - 50001],
     [ident |-> S_LIMW, name |-> S_Aosta,
      type |-> "small_airport", municipality |-> NullColumn,
      iso_country |-> <<"I","T">>, region |-> <<"V","a","l","l","e"," ","d","'","A","o","s","t","a">>,
      lat |-> 15000],
     [ident |-> <<"L","F","P","G">>,
      name |-> <<"C","h","a","r","l","e","s"," ","d","e"," ","G","a","u","l","l","e">>,
      type |-> "large_airport",
      municipality |-> <<"P","a","r","i","s"," ","(","R","o","i","s","s","y",")">>,
      iso_country |-> <<"F","R">>, region |-> <<"I","l","e","-","d","e","-","F","r","a","n","c","e">>,
      lat |-> 63500],
     [ident |-> S_EHAM, name |-> <<"S","c","h","i","p","h","o","l">>,
      type |-> "large_airport", municipality |-> <<"A","m","s","t","e","r","d","a","m">>,
      iso_country |-> <<"N","L">>, region |-> <<"N","o","o","r","d","-","H","o","l","l","a","n","d">>,
      lat |-> 83000] >>

\* SelectSeq with the table order kept, then LIMIT n
Limit(rows, n) == IF Len(rows) > n THEN SubSeq(rows, 1, n) ELSE rows

RECURSIVE Filter(_, _)
Filter(rows, keep) ==
  IF rows = << >> THEN << >>
  ELSE (IF Head(rows) \in keep THEN <<Head(rows)>> ELSE << >>)
       \o Filter(Tail(rows), keep)

Rows == {Directory[i] : i \in 1..Len(Directory)}

(***************************************************************************)
(* getCityToICAOImproved                                                   *)
(***************************************************************************)
CACHE_EXPIRY == 3600000

QueryNames == {"large_airport", "medium_airport", "small_airport", "general_search"}

airportTypes ==
  << [type |-> "large_airport", weight |-> 100],
     [type |-> "medium_airport", weight |-> 80],
     [type |-> "small_airport", weight |-> 60] >>

\* the value JavaScript's null stands for in a resolver result
NullResult == [found |-> FALSE, code |-> << >>, name |-> << >>, confidence |-> 0]

\* `${normalizedCity}_${countryHint || ''}`
CacheKey(normalizedCity, countryHint) == normalizedCity \o <<"_">> \o countryHint

\* .eq('type', t).or(municipality.ilike.%c%,name.ilike.%c%).limit(5)
TierQuery(t, normalizedCity) ==
  Limit(Filter(Directory,
               {a \in Rows : /\ a.type = t
                             /\ \/ ILikeContains(a.municipality, normalizedCity)
                                \/ ILikeContains(a.name, normalizedCity)}), 5)

\* the confidence given to one row of a tier
TierConfidence(airport, weight, normalizedCity, countryHint) ==
  weight
  + (IF normalizeInput(airport.municipality) = normalizedCity THEN 20 ELSE 0)
  + (IF includes(normalizeInput(airport.name), normalizedCity) THEN 15 ELSE 0)
  + (IF countryHint # << >> /\ airport.iso_country = countryHint THEN 10 ELSE 0)

Scored(rows, weight, normalizedCity, countryHint) ==
  [i \in 1..Len(rows) |->
     [code |-> rows[i].ident, name |-> rows[i].name,
      confidence |-> TierConfidence(rows[i], weight, normalizedCity, countryHint)]]

\* what the three tier queries return when they succeed
TierRows(normalizedCity) ==
  [i \in 1..Len(airportTypes) |-> TierQuery(airportTypes[i].type, normalizedCity)]

\* the loop over airportTypes: a failing query contributes no row
RECURSIVE TierResults(_, _, _, _, _)
TierResults(i, rows, normalizedCity, countryHint, failing) ==
  IF i > Len(airportTypes) THEN << >>
  ELSE (IF airportTypes[i].type \in failing THEN << >>
        ELSE Scored(rows[i], airportTypes[i].weight, normalizedCity, countryHint))
       \o TierResults(i + 1, rows, normalizedCity, countryHint, failing)

\* .or(name.ilike,municipality.ilike,ident.ilike).order('type').limit(3)
GeneralQuery(normalizedCity) ==
  LET hit == {a \in Rows : \/ ILikeContains(a.name, normalizedCity)
                           \/ ILikeContains(a.municipality, normalizedCity)
                           \/ ILikeContains(a.ident, normalizedCity)}
  IN Limit(Filter(Directory, {a \in hit : a.type = "large_airport"})
           \o Filter(Directory, {a \in hit : a.type = "medium_airport"})
           \o Filter(Directory, {a \in hit : a.type = "small_airport"}), 3)

GeneralResults(rows, failing) ==
  IF "general_search" \in failing THEN << >>
  ELSE [i \in 1..Len(rows) |->
          [code |-> rows[i].ident, name |-> rows[i].name, confidence |-> 40]]

\* normalizeInput(airport.municipality) or normalizeInput(airport.name)
\* throws a TypeError for a row of tier i: null has no method normalize
TierThrows(i, rows, failing) ==
  /\ airportTypes[i].type \notin failing
  /\ \E k \in 1..Len(rows[i]) :
       rows[i][k].municipality = NullColumn \/ rows[i][k].name = NullColumn

\* the tiers whose rows throw; the first of them ends the try block
ThrowingTiers(rows, failing) ==
  {i \in 1..Len(airportTypes) : TierThrows(i, rows, failing)}

FirstThrowingTier(rows, failing) ==
  CHOOSE i \in ThrowingTiers(rows, failing) :
    \A j \in ThrowingTiers(rows, failing) : i <= j

\* the queries issued by a call that gets past the cache and the code test
QueriesIssued(rows, failing) ==
  IF ThrowingTiers(rows, failing) # {}
  THEN {airportTypes[i].type : i \in 1..FirstThrowingTier(rows, failing)}
  ELSE IF \A i \in 1..Len(airportTypes) :
            airportTypes[i].type \in failing \/ rows[i] = << >>
  THEN QueryNames
  ELSE QueryNames \ {"general_search"}

\* searchResults.sort((a, b) => b.confidence - a.confidence)[0]: the first
\* entry of greatest confidence (the comparator is consistent, the sort stable)
Best(searchResults) ==
  LET i == CHOOSE i \in 1..Len(searchResults) :
             /\ \A j \in 1..Len(searchResults) :
                  searchResults[j].confidence <= searchResults[i].confidence
             /\ \A j \in 1..(i - 1) :
                  searchResults[j].confidence < searchResults[i].confidence
  IN searchResults[i]

\* CachePut keeping the timestamp of the entry it replaces
CachePutKeepTimestamp(cache, key, data, t) ==
  [k \in DOMAIN cache \cup {key} |->
     IF k = key
     THEN [data |-> data,
           timestamp |-> IF key \in DOMAIN cache THEN cache[key].timestamp ELSE t]
     ELSE cache[k]]

CachePut(cache, key, data, t) ==
  [k \in DOMAIN cache \cup {key} |->
     IF k = key THEN [data |-> data, timestamp |-> t] ELSE cache[k]]

\* what airportCache.get(cacheKey) and the expiry test find at time t
CacheEntry(cityName, countryHint, cache, t) ==
  LET cacheKey == CacheKey(normalizeInput(cityName), countryHint)
  IN IF cacheKey \notin DOMAIN cache THEN "absent"
     ELSE IF t - cache[cacheKey].timestamp < CACHE_EXPIRY THEN "fresh"
     ELSE "expired"

\* One call of getCityToICAOImproved at time t with cache content `cache`,
\* the queries named in `failing` returning an error.  The value is the
\* result, the cache after the call, the number of directory queries and
\* whether one of them failed and whether one of them returned a row.
getCityToICAOImproved(cityName, countryHint, cache, t, failing) ==
  LET normalizedCity == normalizeInput(cityName)
      cacheKey == CacheKey(normalizedCity, countryHint)
      rows == TierRows(normalizedCity)
      throws == ThrowingTiers(rows, failing) # {}
      tiers == TierResults(1, rows, normalizedCity, countryHint, failing)
      general == GeneralQuery(normalizedCity)
      searchResults ==
        IF tiers = << >> THEN GeneralResults(general, failing) ELSE tiers
      issued == QueriesIssued(rows, failing)
      queries == Cardinality(issued)
      failed == issued \cap failing # {}
      hit == \/ \E i \in 1..Len(airportTypes) :
                  airportTypes[i].type \in issued \ failing /\ rows[i] # << >>
             \/ "general_search" \in issued \ failing /\ general # << >>
  IN IF cityName = << >>
     THEN [result |-> NullResult, cache |-> cache, queries |-> 0, failed |-> FALSE,
           hit |-> FALSE]
     ELSE IF /\ cacheKey \in DOMAIN cache
             /\ t - cache[cacheKey].timestamp < CACHE_EXPIRY
     THEN [result |-> cache[cacheKey].data, cache |-> cache, queries |-> 0,
           failed |-> FALSE, hit |-> FALSE]
     ELSE IF IsICAOPattern(cityName)
     THEN LET result == [found |-> TRUE, code |-> cityName, name |-> << >>,
                         confidence |-> 100]
          IN [result |-> result, cache |-> CachePut(cache, cacheKey, result, t),
              queries |-> 0, failed |-> FALSE, hit |-> FALSE]
     ELSE IF throws
     THEN [result |-> NullResult, cache |-> cache, queries |-> queries,
           failed |-> failed, hit |-> hit]
     ELSE IF searchResults # << >>
     THEN LET best == Best(searchResults)
              result == [found |-> TRUE, code |-> best.code, name |-> best.name,
                         confidence |-> best.confidence]
          IN [result |-> result, cache |-> CachePut(cache, cacheKey, result, t),
              queries |-> queries, failed |-> failed, hit |-> hit]
     ELSE [result |-> NullResult, cache |-> cache, queries |-> queries,
           failed |-> failed, hit |-> hit]

(***************************************************************************)
(* Numbers                                                                 *)
(***************************************************************************)
Num(n) == [k |-> "num", v |-> n]

NaN == [k |-> "NaN", v |-> 0]

Null == [k |-> "null", v |-> 0]

\* a field the record does not have
Undefined == [k |-> "undefined", v |-> 0]

Abs(x) == IF x < 0 THEN 0 - x ELSE x

RECURSIVE GCD(_, _)
GCD(a, b) == IF b = 0 THEN a ELSE GCD(b, a % b)

\* the fraction n/d in lowest terms, d > 0
Frac(n, d) ==
  LET g == GCD(Abs(n), d)
  IN [n |-> n \div g, d |-> d \div g]

FAdd(x, y) ==
  LET l == (x.d \div GCD(x.d, y.d)) * y.d
  IN Frac(x.n * (l \div x.d) + y.n * (l \div y.d), l)

FMul(x, y) == Frac(x.n * y.n, x.d * y.d)

FInt(n) == [n |-> n, d |-> 1]

\* Math.round: the nearest integer, halves upwards
MathRound(x) == (2 * x.n + x.d) \div (2 * x.d)

\* Math.floor
MathFloor(x) == x.n \div x.d

\* Math.ceil of the quotient a / b, b > 0
CeilDiv(a, b) == 0 - ((0 - a) \div b)

(***************************************************************************)
(* getDistanceKm: on one meridian R * c is the difference of arc lengths.  *)
(* The value is in 1/100 km.                                               *)
(***************************************************************************)
getDistanceKm(lat1, lat2) == Abs(lat2 - lat1)

\* a number of kilometres in the unit of getDistanceKm
Km(n) == n * 100

(***************************************************************************)
(* Dates.  A date string is [present, valid, day, hour]: the day since the *)
(* epoch and the hour of that day it parses to (UTC); new Date(null) is    *)
(* the epoch itself.                                                       *)
(***************************************************************************)
NoDate == [present |-> FALSE, valid |-> FALSE, day |-> 0, hour |-> 0]

DateOf(d, h) == [present |-> TRUE, valid |-> TRUE, day |-> d, hour |-> h]

BadDate == [present |-> TRUE, valid |-> FALSE, day |-> 0, hour |-> 0]

\* new Date(s).getTime(), in hours
Hours(s) == s.day * 24 + s.hour

\* formatDate: the YYYY-MM-DD day of a parseable date, null otherwise.  The
\* value is [isNull, day].  (Dates of an earlier year, which formatDate moves
\* to the current year, are rejected by the validation wherever the result is
\* used for pricing and are not among the dates of the model.)
formatDate(dateInput) ==
  IF dateInput.present /\ dateInput.valid
  THEN [isNull |-> FALSE, day |-> dateInput.day]
  ELSE [isNull |-> TRUE, day |-> 0]

(***************************************************************************)
(* calculateArrivalTime.  A time of day is the string "HH:MM", a sequence  *)
(* of characters; an absent time and the value null are << >>.  The flight *)
(* time is an exact fraction of an hour.                                   *)
(***************************************************************************)
Digits == <<"0","1","2","3","4","5","6","7","8","9">>

\* Number(s) for a string of decimal digits; Number("") is 0
RECURSIVE Number(_)
Number(s) ==
  IF s = << >> THEN 0
  ELSE 10 * Number(SubSeq(s, 1, Len(s) - 1))
       + (CHOOSE d \in 0..9 : Digits[d + 1] = s[Len(s)])

\* n.toString() for an integer n >= 0
RECURSIVE toString(_)
toString(n) ==
  IF n < 10 THEN <<Digits[n + 1]>>
  ELSE toString(n \div 10) \o <<Digits[(n % 10) + 1]>>

\* s.padStart(2, '0') for a string of at least one character
padStart(s) == IF Len(s) < 2 THEN <<"0">> \o s ELSE s

calculateArrivalTime(departureTime, flightTimeHours) ==
  IF departureTime = << >> THEN << >>
  ELSE LET colon == CHOOSE i \in 1..Len(departureTime) : departureTime[i] = ":"
           hours == Number(SubSeq(departureTime, 1, colon - 1))
           minutes == Number(SubSeq(departureTime, colon + 1, Len(departureTime)))
           depMinutes == hours * 60 + minutes
           flightMinutes == FMul(flightTimeHours, FInt(60))
           arrMinutes == FAdd(FInt(depMinutes), flightMinutes)
           wholeHours == MathFloor(FMul(arrMinutes, Frac(1, 60)))
           arrHours == wholeHours % 24
           arrMins == MathRound(FAdd(arrMinutes, FInt(0 - 60 * wholeHours)))
       IN padStart(toString(arrHours)) \o <<":">> \o padStart(toString(arrMins))

(***************************************************************************)
(* validateFlightRequest                                                   *)
(*  A body is [tripType, departure, from, arrival, to, date, returnDate,   *)
(*  time, pax, hasLegs, legs]; an absent string is "" (tripType) or << >>, *)
(*  an absent pax is Undefined, hasLegs says that legs is an array.        *)
(***************************************************************************)
\* midnight of the current day, in days since the epoch
Today == 10

TripTypeOf(body) == IF body.tripType = "" THEN "oneway" ELSE body.tripType

DepartureInput(body) ==
  IF body.departure # << >> THEN body.departure ELSE body.from

ArrivalInput(body) ==
  IF body.arrival # << >> THEN body.arrival ELSE body.to

\* the errors pushed for leg number index (counted from 1)
LegErrors(legs, index) ==
  LET leg == legs[index]
  IN (IF leg.from = << >> \/ leg.to = << >> THEN <<"leg_missing_from_to">> ELSE << >>)
     \o (IF ~leg.date.present THEN << >>
         ELSE (IF ~leg.date.valid THEN <<"leg_date_invalid">>
               ELSE IF Hours(leg.date) < Today * 24 THEN <<"leg_date_past">>
               ELSE << >>)
              \o (IF /\ index > 1
                     /\ legs[index - 1].date.present
                     /\ leg.date.valid
                     /\ legs[index - 1].date.valid
                     /\ Hours(leg.date) <= Hours(legs[index - 1].date)
                  THEN <<"leg_date_order">> ELSE << >>))

RECURSIVE AllLegErrors(_, _)
AllLegErrors(legs, index) ==
  IF index > Len(legs) THEN << >>
  ELSE LegErrors(legs, index) \o AllLegErrors(legs, index + 1)

\* MultilegErrors without the upper limit on the number of legs
MultilegErrorsNoMaximum(body) ==
  (IF Len(body.legs) < 2 THEN <<"legs_min">> ELSE << >>)
  \o AllLegErrors(body.legs, 1)

MultilegErrors(body) ==
  (IF Len(body.legs) < 2 THEN <<"legs_min">> ELSE << >>)
  \o (IF Len(body.legs) > 10 THEN <<"legs_max">> ELSE << >>)
  \o AllLegErrors(body.legs, 1)

SimpleTripErrors(body) ==
  (IF DepartureInput(body) = << >> \/ ArrivalInput(body) = << >>
   THEN <<"missing_departure_or_arrival">> ELSE << >>)
  \o (IF ~body.date.present THEN << >>
      ELSE IF ~body.date.valid THEN <<"date_invalid">>
      ELSE IF Hours(body.date) < Today * 24 THEN <<"date_past">>
      ELSE << >>)
  \o (IF ~body.returnDate.present THEN << >>
      ELSE IF ~body.returnDate.valid THEN <<"return_date_invalid">>
      ELSE IF /\ body.date.present
              /\ body.date.valid
              /\ Hours(body.returnDate) <= Hours(body.date)
      THEN <<"return_date_order">>
      ELSE << >>)

PaxErrors(body) ==
  IF /\ body.pax.k = "num"
     /\ body.pax.v # 0
     /\ (body.pax.v < 1 \/ body.pax.v > 50)
  THEN <<"pax_range">> ELSE << >>

TripTypeErrors(body) ==
  IF TripTypeOf(body) \notin {"oneway", "roundtrip", "multileg"}
  THEN <<"trip_type">> ELSE << >>

validateFlightRequest(body) ==
  IF TripTypeOf(body) = "multileg" /\ ~body.hasLegs
  THEN <<"legs_required">>
  ELSE (IF TripTypeOf(body) = "multileg"
        THEN MultilegErrors(body) ELSE SimpleTripErrors(body))
       \o PaxErrors(body)
       \o TripTypeErrors(body)

(***************************************************************************)
(* The fleet.  A jet is [id, homebase, speed_knots, speed, hourly_rate,    *)
(* range_km, parking_cost_per_day].  A speed, range or parking cost of 0   *)
(* also stands for an absent or null field: the code reads these fields    *)
(* through `||`, which treats 0, null and undefined alike.  hourly_rate is *)
(* Num(n) or Undefined: it is read through `*`, where undefined gives NaN  *)
(* and null counts as 0, so that Num(0) also stands for a null rate.  An   *)
(* absent homebase is << >>.                                               *)
(***************************************************************************)
\* an amount of money: a fraction, or NaN
Amount(f) == [k |-> "num", f |-> f]

AmountNaN == [k |-> "NaN", f |-> FInt(0)]

AmountAdd(x, y) ==
  IF x.k = "num" /\ y.k = "num" THEN Amount(FAdd(x.f, y.f)) ELSE AmountNaN

\* jet.hourly_rate * x
RateTimes(jet, x) ==
  IF jet.hourly_rate.k = "undefined" THEN AmountNaN
  ELSE Amount(FMul(FInt(jet.hourly_rate.v), x))

\* Math.round of an amount
RoundAmount(x) == IF x.k = "num" THEN Num(MathRound(x.f)) ELSE NaN

\* jet.speed_knots || jet.speed || null, 0 for null
Knots(jet) == IF jet.speed_knots # 0 THEN jet.speed_knots ELSE jet.speed

\* distance / (knots * 1.852) in hours, distance in 1/100 km
FlightTime(distance, knots) == Frac(5 * distance, 926 * knots)

\* distance_km / (knots * 1.852) in hours, distance_km in km
FlightTimeKm(distance_km, knots) == Frac(250 * distance_km, 463 * knots)

\* `${hours > 0 ? hours + 'h ' : ''}${minutes}min` of a flight time
FormatFlightTime(flightTime) ==
  LET hours == MathFloor(flightTime)
      minutes == MathRound(FMul(FAdd(flightTime, FInt(0 - hours)), FInt(60)))
  IN (IF hours > 0 THEN toString(hours) \o <<"h"," ">> ELSE << >>)
     \o toString(minutes) \o <<"m","i","n">>

\* calculateRepositioningCost charging at least one day of parking
calculateRepositioningCostMinOneDay(jet, hours, type) ==
  LET parkingCostPerDay ==
        IF jet.parking_cost_per_day # 0 THEN jet.parking_cost_per_day ELSE 500
      days == IF CeilDiv(hours, 24) < 1 THEN 1 ELSE CeilDiv(hours, 24)
  IN IF type = "parking"
     THEN AmountAdd(Amount(FInt(parkingCostPerDay * days)), RateTimes(jet, FInt(2)))
     ELSE IF type = "waiting"
     THEN RateTimes(jet, Frac(3 * hours, 10))
     ELSE Amount(FInt(0))

\* calculateRepositioningCost without the default parking cost
calculateRepositioningCostNoDefault(jet, hours, type) ==
  IF type = "parking"
  THEN AmountAdd(Amount(FInt(jet.parking_cost_per_day * CeilDiv(hours, 24))),
                 RateTimes(jet, FInt(2)))
  ELSE IF type = "waiting"
  THEN RateTimes(jet, Frac(3 * hours, 10))
  ELSE Amount(FInt(0))

calculateRepositioningCost(jet, hours, type) ==
  LET parkingCostPerDay ==
        IF jet.parking_cost_per_day # 0 THEN jet.parking_cost_per_day ELSE 500
      repositioningHours == 2
  IN IF type = "parking"
     THEN AmountAdd(Amount(FInt(parkingCostPerDay * CeilDiv(hours, 24))),
                    RateTimes(jet, FInt(repositioningHours)))
     ELSE IF type = "waiting"
     THEN RateTimes(jet, Frac(3 * hours, 10))
     ELSE Amount(FInt(0))

\* jet.homebase?.trim().toUpperCase()
HomeOf(jet) == toUpperCase(trim(jet.homebase))

\* daysBetween of the handler: Math.ceil of the day difference of the two
\* formatted dates, 0 unless the trip is a round trip with both dates
DaysBetween(tripType, date, returnDate) ==
  IF /\ tripType = "roundtrip"
     /\ ~formatDate(date).isNull
     /\ ~formatDate(returnDate).isNull
  THEN formatDate(returnDate).day - formatDate(date).day
  ELSE 0

\* JetsNearby with the boundary excluded
JetsNearbyStrict(fleetRows, airports, depCode) ==
  Filter(fleetRows,
         {fleetRows[i] : i \in {j \in 1..Len(fleetRows) :
            /\ HomeOf(fleetRows[j]) \in DOMAIN airports
            /\ getDistanceKm(airports[depCode].lat, airports[HomeOf(fleetRows[j])].lat)
                 < Km(500)}})

\* jets.filter(...): the jets whose home base is in the index within 500 km
JetsNearby(fleetRows, airports, depCode) ==
  Filter(fleetRows,
         {fleetRows[i] : i \in {j \in 1..Len(fleetRows) :
            /\ HomeOf(fleetRows[j]) \in DOMAIN airports
            /\ getDistanceKm(airports[depCode].lat, airports[HomeOf(fleetRows[j])].lat)
                 <= Km(500)}})

\* TotalCost with the outbound flight charged twice
TotalCostOutboundTwice(jet, distance, tripType, daysBetween) ==
  LET flightTime == FlightTime(distance, Knots(jet))
      outboundCost == RateTimes(jet, FMul(FInt(2), flightTime))
      returnCost ==
        IF tripType = "roundtrip" THEN RateTimes(jet, flightTime)
        ELSE Amount(FInt(0))
      repositioningCost ==
        IF tripType = "roundtrip"
        THEN calculateRepositioningCost(jet, daysBetween * 24, "parking")
        ELSE Amount(FInt(0))
  IN AmountAdd(AmountAdd(outboundCost, returnCost), repositioningCost)

\* totalCost = outboundCost + returnCost + repositioningCost
TotalCost(jet, distance, tripType, daysBetween) ==
  LET flightTime == FlightTime(distance, Knots(jet))
      outboundCost == RateTimes(jet, flightTime)
      returnCost ==
        IF tripType = "roundtrip" THEN RateTimes(jet, flightTime)
        ELSE Amount(FInt(0))
      repositioningCost ==
        IF tripType = "roundtrip"
        THEN calculateRepositioningCost(jet, daysBetween * 24, "parking")
        ELSE Amount(FInt(0))
  IN AmountAdd(AmountAdd(outboundCost, returnCost), repositioningCost)

\* the object results.map builds for one jet; total_cost is the unrounded
\* totalCost the rounded total_price comes from
QuoteOf(jet, distance, tripType, daysBetween) ==
  IF Knots(jet) = 0
  THEN [jet_id |-> jet.id, flight_time |-> Null, flight_time_pretty |-> << >>,
        total_cost |-> AmountNaN, total_price |-> Null, warning |-> TRUE]
  ELSE [jet_id |-> jet.id,
        flight_time |-> Amount(FlightTime(distance, Knots(jet))),
        flight_time_pretty |-> FormatFlightTime(FlightTime(distance, Knots(jet))),
        total_cost |-> TotalCost(jet, distance, tripType, daysBetween),
        total_price |-> RoundAmount(TotalCost(jet, distance, tripType, daysBetween)),
        warning |-> FALSE]

(***************************************************************************)
(* Array.prototype.sort as the engine running the handler (V8) performs it *)
(* on arrays of fewer than 64 elements: the leading run is found (and      *)
(* reversed when strictly descending), then every later element is put in  *)
(* place by binary insertion.  A comparator result of NaN counts as 0.     *)
(* The array is sorted through its indices: ord[i][j] is the sign of       *)
(* compare(element i, element j), the value is the order of the indices.   *)
(***************************************************************************)
Sign(x) == IF x < 0 THEN 0 - 1 ELSE IF x > 0 THEN 1 ELSE 0

\* (a.total_price ?? Infinity) - (b.total_price ?? Infinity)
CompareNullsLast(a, b) ==
  IF a.total_price.k = "NaN" \/ b.total_price.k = "NaN" THEN 0
  ELSE IF a.total_price.k = "null" /\ b.total_price.k = "null" THEN 0
  ELSE IF a.total_price.k = "null" THEN 1
  ELSE IF b.total_price.k = "null" THEN 0 - 1
  ELSE Sign(a.total_price.v - b.total_price.v)

\* a.total_price - b.total_price
CompareTotalPrice(a, b) ==
  IF a.total_price.k = "NaN" \/ b.total_price.k = "NaN" THEN 0
  ELSE Sign(a.total_price.v - b.total_price.v)

RECURSIVE RunLength(_, _, _, _)
RunLength(idx, n, isDescending, ord) ==
  IF idx > n THEN n
  ELSE IF isDescending /\ ord[idx][idx - 1] >= 0 THEN idx - 1
  ELSE IF ~isDescending /\ ord[idx][idx - 1] < 0 THEN idx - 1
  ELSE RunLength(idx + 1, n, isDescending, ord)

\* the insertion point of pivot in work[left+1 .. right], counted from 0
RECURSIVE BinarySearch(_, _, _, _, _)
BinarySearch(work, pivot, left, right, ord) ==
  IF left >= right THEN left
  ELSE LET mid == left + ((right - left) \div 2)
       IN IF ord[pivot][work[mid + 1]] < 0
          THEN BinarySearch(work, pivot, left, mid, ord)
          ELSE BinarySearch(work, pivot, mid + 1, right, ord)

RECURSIVE BinaryInsertionSort(_, _, _)
BinaryInsertionSort(work, rest, ord) ==
  IF rest = << >> THEN work
  ELSE LET at == BinarySearch(work, Head(rest), 0, Len(work), ord)
       IN BinaryInsertionSort(
            SubSeq(work, 1, at) \o <<Head(rest)>> \o SubSeq(work, at + 1, Len(work)),
            Tail(rest), ord)

ArraySort(n, ord) ==
  IF n < 2 THEN [i \in 1..n |-> i]
  ELSE LET isDescending == ord[2][1] < 0
           run == RunLength(3, n, isDescending, ord)
           first == IF isDescending THEN [i \in 1..run |-> run + 1 - i]
                    ELSE [i \in 1..run |-> i]
       IN BinaryInsertionSort(first, [i \in 1..(n - run) |-> run + i], ord)

\* results.sort((a, b) => (a.total_price ?? Infinity) - (b.total_price ?? Infinity))
SortResults(results) ==
  LET ord == [i \in 1..Len(results) |->
                [j \in 1..Len(results) |-> CompareNullsLast(results[i], results[j])]]
      order == ArraySort(Len(results), ord)
  IN [i \in 1..Len(results) |-> results[order[i]]]

\* suitableJets.sort((a, b) => a.total_price - b.total_price)
SortSuitableJets(suitableJets) ==
  LET ord == [i \in 1..Len(suitableJets) |->
                [j \in 1..Len(suitableJets) |->
                   CompareTotalPrice(suitableJets[i], suitableJets[j])]]
      order == ArraySort(Len(suitableJets), ord)
  IN [i \in 1..Len(suitableJets) |-> suitableJets[order[i]]]

(***************************************************************************)
(* processMultilegRequest, after the airports of the legs are resolved.    *)
(* A resolved leg is [from_icao, to_icao, date]; date is formatDate of the *)
(* leg's date.                                                             *)
(***************************************************************************)
\* new Date(leg.date).getTime() in hours: the day, the epoch for null
LegHours(leg) == IF leg.date.isNull THEN 0 ELSE leg.date.day * 24

\* Math.round(distance) in km
LegDistanceKm(leg, airports) ==
  MathRound(Frac(getDistanceKm(airports[leg.from_icao].lat,
                               airports[leg.to_icao].lat), 100))

\* the waiting cost added after leg number index
WaitingCost(jet, legs, index) ==
  IF index < Len(legs) /\ LegHours(legs[index + 1]) - LegHours(legs[index]) > 2
  THEN calculateRepositioningCost(
         jet, LegHours(legs[index + 1]) - LegHours(legs[index]), "waiting")
  ELSE Amount(FInt(0))

\* totalCost after the loop over the legs from leg number index on
RECURSIVE LegsCost(_, _, _, _)
LegsCost(jet, legs, airports, index) ==
  IF index > Len(legs) THEN Amount(FInt(0))
  ELSE AmountAdd(
         AmountAdd(RateTimes(jet, FlightTimeKm(LegDistanceKm(legs[index], airports),
                                               Knots(jet))),
                   WaitingCost(jet, legs, index)),
         LegsCost(jet, legs, airports, index + 1))

MaxLegDistance(legs, airports) ==
  CHOOSE m \in {LegDistanceKm(legs[i], airports) : i \in 1..Len(legs)} :
    \A i \in 1..Len(legs) : LegDistanceKm(legs[i], airports) <= m

JetRange(jet) == IF jet.range_km # 0 THEN jet.range_km ELSE 3000

\* finalRepositioningCost: the flight from the last destination to the base
FinalRepositioningCost(jet, legs, airports) ==
  IF HomeOf(jet) \in DOMAIN airports
  THEN RateTimes(jet,
         FlightTime(getDistanceKm(airports[legs[Len(legs)].to_icao].lat,
                                  airports[HomeOf(jet)].lat), Knots(jet)))
  ELSE Amount(FInt(0))

MultilegTotalCost(jet, legs, airports) ==
  AmountAdd(LegsCost(jet, legs, airports, 1),
            FinalRepositioningCost(jet, legs, airports))

\* whether jets.forEach pushes a quote for the jet
Suitable(jet, legs, airports) ==
  /\ Knots(jet) # 0
  /\ MaxLegDistance(legs, airports) <= JetRange(jet)

\* totalFlightTime from leg number index on
RECURSIVE TotalFlightTime(_, _, _, _)
TotalFlightTime(jet, legs, airports, index) ==
  IF index > Len(legs) THEN FInt(0)
  ELSE FAdd(FlightTimeKm(LegDistanceKm(legs[index], airports), Knots(jet)),
            TotalFlightTime(jet, legs, airports, index + 1))

MultilegQuote(jet, legs, airports) ==
  [jet_id |-> jet.id,
   flight_time |-> Amount(TotalFlightTime(jet, legs, airports, 1)),
   flight_time_pretty |-> FormatFlightTime(TotalFlightTime(jet, legs, airports, 1)),
   can_complete_tour |-> MaxLegDistance(legs, airports) <= JetRange(jet),
   total_cost |-> MultilegTotalCost(jet, legs, airports),
   total_price |-> RoundAmount(MultilegTotalCost(jet, legs, airports)),
   warning |-> FALSE]

RECURSIVE SuitableJets(_, _, _)
SuitableJets(jets, legs, airports) ==
  IF jets = << >> THEN << >>
  ELSE (IF Suitable(Head(jets), legs, airports)
        THEN <<MultilegQuote(Head(jets), legs, airports)>> ELSE << >>)
       \o SuitableJets(Tail(jets), legs, airports)

(***************************************************************************)
(* The handler.  One request is handled at a time; its awaits are the      *)
(* points between the actions.  A call of getCityToICAOImproved is one     *)
(* action.                                                                 *)
(***************************************************************************)
VARIABLES
  airportCache,  \* the module-level Map: cache key -> [data, timestamp]
  now,           \* Date.now(), in ms since the start of the current day
  fleet,         \* the rows of table "jet"
  pc,            \* where the handler is: idle, jets, collect, lookup, done; in
                 \* the first handler legacy_resolve, legacy_jets,
                 \* legacy_bases, legacy_done; returned after a direct
                 \* call of a helper function
  body,          \* req.body of the request being handled
  jets,          \* jetQuery.data
  calls,         \* the inputs still to resolve in the current loop
  found,         \* the results of the calls made in the current loop
  AIRPORTS,      \* the airport index: code -> [lat]
  res,           \* the response sent
  dirQueries,    \* directory queries issued for the current request
  fleetQueries,  \* fleet queries issued for the current request
  lastCall,      \* the last call of getCityToICAOImproved made for the request
  queryFailed,   \* a query issued for the current request returned an error
  served,        \* requests received so far
  callArgs,      \* the arguments of a direct call of a helper function
  callValue      \* the value the call returned

vars ==
  <<airportCache, now, fleet, pc, body, jets, calls, found, AIRPORTS, res,
    dirQueries, fleetQueries, lastCall, queryFailed, served, callArgs,
    callValue>>

\* bounds of the model
MaxRequests == 2

MaxTicks == 2

TickMs == CACHE_EXPIRY \div 2

NoBody ==
  [tripType |-> "", departure |-> << >>, from |-> << >>, arrival |-> << >>,
   to |-> << >>, date |-> NoDate, returnDate |-> NoDate, pax |-> Undefined,
   hasLegs |-> FALSE, legs |-> << >>]

NoResponse ==
  [status |-> 0, error |-> "", details |-> << >>, jets |-> << >>, pax |-> Null]

NoCall ==
  [input |-> << >>, result |-> NullResult, queries |-> 0, hit |-> FALSE,
   entry |-> "absent", made |-> FALSE]

\* a response; pax is input.pax of the body sent, null where there is none
Response(status, error) ==
  [status |-> status, error |-> error, details |-> << >>, jets |-> << >>,
   pax |-> Null]

\* the inputs the two resolution loops of the handler go through
RECURSIVE LegInputs(_)
LegInputs(legs) ==
  IF legs = << >> THEN << >>
  ELSE <<Head(legs).from, Head(legs).to>> \o LegInputs(Tail(legs))

InputsOf(b) ==
  IF TripTypeOf(b) = "multileg" THEN LegInputs(b.legs)
  ELSE <<DepartureInput(b), ArrivalInput(b)>>

\* handler entry: validateFlightRequest, 400 when it reports an error
Receive(b) ==
  /\ pc \in {"idle", "done"}
  /\ served < MaxRequests
  /\ served' = served + 1
  /\ body' = b
  /\ dirQueries' = 0
  /\ fleetQueries' = 0
  /\ jets' = << >>
  /\ calls' = << >>
  /\ found' = << >>
  /\ AIRPORTS' = << >>
  /\ lastCall' = NoCall
  /\ queryFailed' = FALSE
  /\ IF validateFlightRequest(b) # << >>
     THEN /\ res' = [Response(400, "validation") EXCEPT
                       !.details = validateFlightRequest(b)]
          /\ pc' = "done"
     ELSE /\ res' = NoResponse
          /\ pc' = "jets"
  /\ UNCHANGED <<callArgs, callValue>>
  /\ UNCHANGED <<airportCache, now, fleet>>

\* supabase.from('jet').select('*') through safeSupabaseQuery
FetchJets ==
  /\ pc = "jets"
  /\ fleetQueries' = fleetQueries + 1
  /\ \E ok \in BOOLEAN :
       IF ok
       THEN /\ jets' = fleet
            /\ calls' = InputsOf(body)
            /\ pc' = "collect"
            /\ res' = res
            /\ queryFailed' = queryFailed
       ELSE /\ res' = Response(500, "jets")
            /\ queryFailed' = TRUE
            /\ pc' = "done"
            /\ UNCHANGED <<jets, calls>>
  /\ UNCHANGED <<callArgs, callValue>>
  /\ UNCHANGED <<airportCache, now, fleet, body, found, AIRPORTS, dirQueries,
                 lastCall, served>>

\* for multileg, the second loop throws after a leg with an unresolved end
LegUnresolved(results) ==
  /\ TripTypeOf(body) = "multileg"
  /\ pc = "lookup"
  /\ Len(results) % 2 = 0
  /\ (~results[Len(results) - 1].found \/ ~results[Len(results)].found)

\* ResolveCall with the result cached also when nothing was found
ResolveCallCachingNotFound ==
  /\ pc \in {"collect", "lookup"}
  /\ calls # << >>
  /\ \E failing \in SUBSET QueryNames :
       \E r \in {getCityToICAOImproved(Head(calls), << >>, airportCache, now,
                                        failing)} :
          /\ airportCache' =
               IF r.result.found \/ Head(calls) = << >> THEN r.cache
               ELSE CachePut(airportCache, CacheKey(normalizeInput(Head(calls)), << >>),
                             r.result, now)
          /\ dirQueries' = dirQueries + r.queries
          /\ lastCall' = [input |-> Head(calls), result |-> r.result,
                          queries |-> r.queries, hit |-> r.hit,
                          entry |-> CacheEntry(Head(calls), << >>, airportCache, now),
                          made |-> TRUE]
          /\ found' = Append(found, r.result)
          /\ queryFailed' = (queryFailed \/ r.failed)
          /\ IF LegUnresolved(Append(found, r.result))
             THEN /\ res' = Response(500, "internal")
                  /\ pc' = "done"
                  /\ calls' = << >>
             ELSE /\ calls' = Tail(calls)
                  /\ UNCHANGED <<res, pc>>
  /\ UNCHANGED <<callArgs, callValue>>
  /\ UNCHANGED <<now, fleet, body, jets, AIRPORTS, fleetQueries, served>>

\* one await getCityToICAOImproved(input) of either loop
ResolveCall ==
  /\ pc \in {"collect", "lookup"}
  /\ calls # << >>
  /\ \E failing \in SUBSET QueryNames :
       \E r \in {getCityToICAOImproved(Head(calls), << >>, airportCache, now,
                                        failing)} :
          /\ airportCache' = r.cache
          /\ dirQueries' = dirQueries + r.queries
          /\ lastCall' = [input |-> Head(calls), result |-> r.result,
                          queries |-> r.queries, hit |-> r.hit,
                          entry |-> CacheEntry(Head(calls), << >>, airportCache, now),
                          made |-> TRUE]
          /\ found' = Append(found, r.result)
          /\ queryFailed' = (queryFailed \/ r.failed)
          /\ IF LegUnresolved(Append(found, r.result))
             THEN /\ res' = Response(500, "internal")
                  /\ pc' = "done"
                  /\ calls' = << >>
             ELSE /\ calls' = Tail(calls)
                  /\ UNCHANGED <<res, pc>>
  /\ UNCHANGED <<callArgs, callValue>>
  /\ UNCHANGED <<now, fleet, body, jets, AIRPORTS, fleetQueries, served>>

\* the codes handed to .in('ident', allIcaoCodes)
AllIcaoCodes ==
  {found[i].code : i \in {j \in 1..Len(found) : found[j].found}}
  \cup ({HomeOf(jets[i]) : i \in 1..Len(jets)} \ {<< >>})

\* AIRPORTS as built from the rows the query returns
AirportIndex(codes) ==
  LET rows == {a \in Rows : a.ident \in codes}
  IN [c \in {toUpperCase(trim(a.ident)) : a \in rows} |->
        [lat |-> (CHOOSE a \in rows : toUpperCase(trim(a.ident)) = c).lat]]

\* AirportQuery with the branch for an unresolved end of a simple trip sending
\* nothing and never returning
AirportQueryWithoutReply ==
  /\ pc = "collect"
  /\ calls = << >>
  /\ IF /\ TripTypeOf(body) # "multileg"
        /\ \E i \in 1..Len(found) : ~found[i].found
     THEN UNCHANGED <<res, pc, AIRPORTS, calls, found, dirQueries, queryFailed>>
     ELSE /\ dirQueries' = dirQueries + 1
          /\ \E ok \in BOOLEAN :
               IF ok
               THEN /\ AIRPORTS' = AirportIndex(AllIcaoCodes)
                    /\ calls' = InputsOf(body)
                    /\ found' = << >>
                    /\ pc' = "lookup"
                    /\ res' = res
                    /\ queryFailed' = queryFailed
               ELSE /\ res' = Response(500, "airports")
                    /\ queryFailed' = TRUE
                    /\ pc' = "done"
                    /\ UNCHANGED <<AIRPORTS, calls, found>>
  /\ UNCHANGED <<callArgs, callValue>>
  /\ UNCHANGED <<airportCache, now, fleet, body, jets, fleetQueries, lastCall,
                 served>>

\* end of the first loop: 400 for an unresolved end of a simple trip, then
\* the query for the coordinates of all airports
AirportQuery ==
  /\ pc = "collect"
  /\ calls = << >>
  /\ IF /\ TripTypeOf(body) # "multileg"
        /\ \E i \in 1..Len(found) : ~found[i].found
     THEN /\ res' = Response(400, "airport_not_found")
          /\ pc' = "done"
          /\ UNCHANGED <<AIRPORTS, calls, found, dirQueries, queryFailed>>
     ELSE /\ dirQueries' = dirQueries + 1
          /\ \E ok \in BOOLEAN :
               IF ok
               THEN /\ AIRPORTS' = AirportIndex(AllIcaoCodes)
                    /\ calls' = InputsOf(body)
                    /\ found' = << >>
                    /\ pc' = "lookup"
                    /\ res' = res
                    /\ queryFailed' = queryFailed
               ELSE /\ res' = Response(500, "airports")
                    /\ queryFailed' = TRUE
                    /\ pc' = "done"
                    /\ UNCHANGED <<AIRPORTS, calls, found>>
  /\ UNCHANGED <<callArgs, callValue>>
  /\ UNCHANGED <<airportCache, now, fleet, body, jets, fleetQueries, lastCall,
                 served>>

\* resolvedLegs of processMultilegRequest
ResolvedLegs(legs, results) ==
  [i \in 1..Len(legs) |->
     [from_icao |-> results[2 * i - 1].code,
      to_icao |-> results[2 * i].code,
      date |-> formatDate(legs[i].date)]]

\* the rest of the handler after the last resolution: the lookups in the
\* airport index, the fleet filter, the pricing, the sort and the response.
\* Reading a property of null or undefined throws; the catch answers 500.
Respond ==
  /\ pc = "lookup"
  /\ calls = << >>
  /\ pc' = "done"
  /\ IF TripTypeOf(body) = "multileg"
     THEN LET legs == ResolvedLegs(body.legs, found)
          IN IF \E i \in 1..Len(legs) :
                  \/ legs[i].from_icao \notin DOMAIN AIRPORTS
                  \/ legs[i].to_icao \notin DOMAIN AIRPORTS
             THEN res' = Response(500, "internal")
             ELSE res' = [Response(200, "") EXCEPT
                            !.jets = SortSuitableJets(SuitableJets(jets, legs, AIRPORTS))]
     ELSE IF \/ ~found[1].found
             \/ ~found[2].found
             \/ found[1].code \notin DOMAIN AIRPORTS
             \/ found[2].code \notin DOMAIN AIRPORTS
          THEN res' = Response(500, "internal")
          ELSE LET tripType == TripTypeOf(body)
                   daysBetween == DaysBetween(tripType, body.date, body.returnDate)
                   jetsNearby == JetsNearby(jets, AIRPORTS, found[1].code)
                   distance == getDistanceKm(AIRPORTS[found[1].code].lat,
                                             AIRPORTS[found[2].code].lat)
                   results == [i \in 1..Len(jetsNearby) |->
                                 QuoteOf(jetsNearby[i], distance, tripType, daysBetween)]
                   pax == IF body.pax.k = "undefined" THEN Num(4) ELSE body.pax
               IN res' = [Response(200, "") EXCEPT
                            !.jets = SortResults(results), !.pax = pax]
  /\ UNCHANGED <<callArgs, callValue>>
  /\ UNCHANGED <<airportCache, now, fleet, body, jets, calls, found, AIRPORTS,
                 dirQueries, fleetQueries, lastCall, queryFailed, served>>

\* time passes
Tick ==
  /\ now < MaxTicks * TickMs
  /\ now' = now + TickMs
  /\ UNCHANGED <<callArgs, callValue>>
  /\ UNCHANGED <<airportCache, fleet, pc, body, jets, calls, found, AIRPORTS,
                 res, dirQueries, fleetQueries, lastCall, queryFailed, served>>

(***************************************************************************)
(* The fleets and the requests of the model                                *)
(***************************************************************************)
Jet(homebase, speed_knots, speed, hourly_rate, range_km, parking) ==
  [id |-> 0, homebase |-> homebase, speed_knots |-> speed_knots, speed |-> speed,
   hourly_rate |-> hourly_rate, range_km |-> range_km,
   parking_cost_per_day |-> parking]

\* based at the departure airport, every optional field absent
JetLinate == Jet(S_LIML, 450, 0, Num(3000), 0, 0)

\* based exactly 500.00 km away, legacy speed field, short range
JetCiampino == Jet(<<" ","l","i","r","a">>, 0, 400, Num(2500), 500, 300)

\* based 500.01 km away
JetFiumicino == Jet(S_LIRF, 450, 0, Num(1000), 0, 0)

\* no speed
JetNoSpeed == Jet(S_LIML, 0, 0, Num(2000), 0, 0)

\* no hourly_rate column
JetNoRate == Jet(S_LIML, 450, 0, Undefined, 0, 0)

\* hourly rate NULL in the table
JetNullRate == Jet(S_LIML, 450, 0, Null, 0, 0)

\* hourly rate zero
JetZeroRate == Jet(S_LIML, 450, 0, Num(0), 0, 0)

\* home base not in the directory
JetUnknownBase == Jet(S_ZZZZ, 450, 0, Num(3000), 0, 0)

\* no home base
JetNoBase == Jet(<< >>, 450, 0, Num(3000), 0, 0)

\* the rows of a fleet get their ids from their place in the table
WithIds(rows) == [i \in 1..Len(rows) |-> [rows[i] EXCEPT !.id = i]]

SimpleTrip(tripType, from, to, date, returnDate) ==
  [NoBody EXCEPT !.tripType = tripType, !.from = from, !.to = to,
                 !.date = date, !.returnDate = returnDate]

WithPax(b, pax) == [b EXCEPT !.pax = pax]

Leg(from, to, date) == [from |-> from, to |-> to, date |-> date]

Multileg(legs) ==
  [NoBody EXCEPT !.tripType = "multileg", !.hasLegs = TRUE, !.legs = legs]

S_liml == <<"l","i","m","l">>

\* the days of the requests, counted from today
Day(n) == DateOf(Today + n, 0)

LegOut == Leg(S_LIML, S_LFPB, Day(1))

LegBack == Leg(S_LFPB, S_LIML, Day(2))

RECURSIVE Repeat(_, _)
Repeat(x, n) == IF n = 0 THEN << >> ELSE <<x>> \o Repeat(x, n - 1)

\* the requests of the main specification: every way of failing validation
\* and resolution, and the three trip types
Bodies ==
  {SimpleTrip("", from, S_LFPB, NoDate, NoDate) :
     from \in {<< >>, S_LIML, S_liml, S_Milano, S_ZZZZ}}
  \cup {SimpleTrip("roundtrip", S_LIML, to, Day(1), Day(3)) : to \in {<< >>, S_LFPB}}
  \cup {Multileg(legs) :
          legs \in {<<LegOut>>, <<LegOut, LegBack>>,
                    <<LegOut, Leg(S_LFPB, << >>, Day(2))>>,
                    Repeat(Leg(S_LIML, S_LFPB, NoDate), 11)}}

Fleets == {WithIds(<<JetLinate, JetCiampino, JetUnknownBase>>)}

Init ==
  /\ airportCache = << >>
  /\ now = 0
  /\ fleet \in Fleets
  /\ pc = "idle"
  /\ body = NoBody
  /\ jets = << >>
  /\ calls = << >>
  /\ found = << >>
  /\ AIRPORTS = << >>
  /\ res = NoResponse
  /\ dirQueries = 0
  /\ fleetQueries = 0
  /\ lastCall = NoCall
  /\ queryFailed = FALSE
  /\ served = 0
  /\ callArgs = << >>
  /\ callValue = << >>

Next ==
  \/ \E b \in Bodies : Receive(b)
  \/ FetchJets
  \/ ResolveCall
  \/ AirportQuery
  \/ Respond
  \/ Tick

Spec == Init /\ [][Next]_vars

\* The handler is an async function: once the store answers an awaited
\* query the event loop runs the continuation, so a step of the handler
\* that stays enabled is eventually taken.  Requests and the passing of time
\* are under no such obligation.  For ResolveCall and Respond weak fairness
\* is written out, []<>~ENABLED <<A>>_vars \/ []<><<A>>_vars, with the
\* action's guard as its enabling condition: past the guard each of the two
\* assigns every variable and changes found or pc.
SpecLive ==
  /\ Spec
  /\ WF_vars(FetchJets)
  /\ WF_vars(AirportQuery)
  /\ \/ []<>~(pc \in {"collect", "lookup"} /\ calls # << >>)
     \/ []<><<ResolveCall>>_vars
  /\ \/ []<>~(pc = "lookup" /\ calls = << >>)
     \/ []<><<Respond>>_vars

(***************************************************************************)
(* Pricing specification: one request out of the priceable trips, against  *)
(* every fleet of up to MaxFleet rows.                                     *)
(***************************************************************************)
MaxFleet == 2

JetKinds ==
  {JetLinate, JetCiampino, JetFiumicino, JetNoSpeed, JetNoRate, JetNullRate,
   JetZeroRate, JetUnknownBase, JetNoBase}

FleetsOver(kinds, n) == {WithIds(rows) : rows \in UNION {[1..k -> kinds] : k \in 1..n}}

PriceBodies ==
  {SimpleTrip("oneway", S_LIML, to, date, NoDate) :
     to \in {S_LFPB, S_LIML}, date \in {NoDate, Day(1)}}
  \cup {SimpleTrip("roundtrip", S_LIML, S_LFPB, date, returnDate) :
          date \in {NoDate, Day(1)},
          returnDate \in {NoDate, DateOf(Today + 1, 18), Day(2), Day(3), Day(4)}}
  \cup {Multileg(legs) :
          legs \in {<<LegOut, LegBack>>,
                    <<Leg(S_LIML, S_LFPB, NoDate), LegBack>>,
                    <<LegOut, LegBack, Leg(S_LIML, S_LIRA, Day(3))>>,
                    <<Leg(S_LIML, S_LIRF, Day(1)), Leg(S_LIRF, S_LIML, Day(2))>>,
                    <<LegOut, LegBack, Leg(S_LIML, S_LFPB, Day(1))>>,
                    <<Leg(S_LIML, S_LFPB, Day(3)), Leg(S_LFPB, S_LIML, NoDate),
                      Leg(S_LIML, S_LFPB, Day(2))>>}}
  \cup {WithPax(SimpleTrip("oneway", S_LIML, S_LFPB, NoDate, NoDate), Num(pax)) :
          pax \in {0 - 1, 0, 1, 50, 51}}
  \cup {SimpleTrip("oneway", from, S_LFPB, NoDate, NoDate) :
          from \in {S_Milano, S_Aosta}}
  \cup {SimpleTrip("oneway", S_Paris, S_LIML, NoDate, NoDate)}
  \cup {SimpleTrip("oneway", S_LIML, S_EHAM, NoDate, NoDate)}
  \cup {SimpleTrip("oneway", from, to, NoDate, NoDate) :
          from \in {S_LIML, S_liml}, to \in {S_LIML, S_liml}}

InitPrice ==
  /\ airportCache = << >>
  /\ now = 0
  /\ fleet \in FleetsOver(JetKinds, MaxFleet)
  /\ pc = "idle"
  /\ body = NoBody
  /\ jets = << >>
  /\ calls = << >>
  /\ found = << >>
  /\ AIRPORTS = << >>
  /\ res = NoResponse
  /\ dirQueries = 0
  /\ fleetQueries = 0
  /\ lastCall = NoCall
  /\ queryFailed = FALSE
  /\ served = MaxRequests - 1
  /\ callArgs = << >>
  /\ callValue = << >>

NextPrice ==
  \/ \E b \in PriceBodies : Receive(b)
  \/ FetchJets
  \/ ResolveCall
  \/ AirportQuery
  \/ Respond

SpecPrice == InitPrice /\ [][NextPrice]_vars

(***************************************************************************)
(* Ranking specification: a one-way request from LIML to LFPB against      *)
(* every fleet of up to MaxRanked rows based at LIML.                      *)
(***************************************************************************)
MaxRanked == 7

JetCheap == Jet(S_LIML, 450, 0, Num(1000), 0, 0)

RankedKinds == {JetLinate, JetCheap, JetNoRate}

RankedBody == SimpleTrip("oneway", S_LIML, S_LFPB, NoDate, NoDate)

InitRank ==
  /\ airportCache = << >>
  /\ now = 0
  /\ fleet \in FleetsOver(RankedKinds, MaxRanked)
  /\ pc = "idle"
  /\ body = NoBody
  /\ jets = << >>
  /\ calls = << >>
  /\ found = << >>
  /\ AIRPORTS = << >>
  /\ res = NoResponse
  /\ dirQueries = 0
  /\ fleetQueries = 0
  /\ lastCall = NoCall
  /\ queryFailed = FALSE
  /\ served = MaxRequests - 1
  /\ callArgs = << >>
  /\ callValue = << >>

NextRank ==
  \/ Receive(RankedBody)
  \/ FetchJets
  \/ ResolveCall
  \/ AirportQuery
  \/ Respond

SpecRank == InitRank /\ [][NextRank]_vars

(***************************************************************************)
(* The first handler of the file (lines 1-391) and its resolver            *)
(* getCityToICAO, which has no cache and no tiers.                         *)
(***************************************************************************)
\* .order('type', { ascending: true }): the rows by classification, rows of
\* one classification in table order
OrderByType(hit) ==
  Filter(Directory, {a \in hit : a.type = "large_airport"})
  \o Filter(Directory, {a \in hit : a.type = "medium_airport"})
  \o Filter(Directory, {a \in hit : a.type = "small_airport"})

\* .or(name.ilike.%c%,municipality.ilike.%c%).order('type').limit(5)
PrimaryQuery(normalizedCity) ==
  Limit(OrderByType({a \in Rows : \/ ILikeContains(a.name, normalizedCity)
                                  \/ ILikeContains(a.municipality, normalizedCity)}), 5)

\* .or(region.ilike.%c%,iso_country.eq.c).order('type').limit(1)
SecondaryQuery(normalizedCity) ==
  Limit(OrderByType({a \in Rows : \/ ILikeContains(a.region, normalizedCity)
                                  \/ a.iso_country = normalizedCity}), 1)

fallbackMap ==
  <<
     [key |-> <<"m","i","l","a","n","o">>, value |-> <<"L","I","M","L">>],
     [key |-> <<"r","o","m","a">>, value |-> <<"L","I","R","F">>],
     [key |-> <<"n","a","p","o","l","i">>, value |-> <<"L","I","R","N">>],
     [key |-> <<"t","o","r","i","n","o">>, value |-> <<"L","I","M","F">>],
     [key |-> <<"v","e","n","e","z","i","a">>, value |-> <<"L","I","P","Z">>],
     [key |-> <<"f","i","r","e","n","z","e">>, value |-> <<"L","I","R","Q">>],
     [key |-> <<"c","a","t","a","n","i","a">>, value |-> <<"L","I","C","C">>],
     [key |-> <<"p","a","l","e","r","m","o">>, value |-> <<"L","I","C","J">>],
     [key |-> <<"i","b","i","z","a">>, value |-> <<"L","E","I","B">>],
     [key |-> <<"n","i","z","z","a">>, value |-> <<"L","F","M","N">>],
     [key |-> <<"c","a","n","n","e","s">>, value |-> <<"L","F","M","N">>],
     [key |-> <<"m","a","l","a","g","a">>, value |-> <<"L","E","M","G">>],
     [key |-> <<"l","u","g","a","n","o">>, value |-> <<"L","S","Z","A">>],
     [key |-> <<"b","a","r","c","e","l","l","o","n","a">>, value |-> <<"L","E","B","L">>],
     [key |-> <<"m","a","d","r","i","d">>, value |-> <<"L","E","M","D">>],
     [key |-> <<"l","o","n","d","r","a">>, value |-> <<"E","G","L","L">>],
     [key |-> <<"p","a","r","i","g","i">>, value |-> <<"L","F","P","G">>],
     [key |-> <<"b","e","r","l","i","n","o">>, value |-> <<"E","D","D","B">>],
     [key |-> <<"a","m","s","t","e","r","d","a","m">>, value |-> <<"E","H","A","M">>],
     [key |-> <<"m","o","n","a","c","o">>, value |-> <<"E","D","D","M">>] >>

\* the values of the entries of fallbackMap whose key the city includes, in
\* the order of the map
FallbackValues(normalizedCity) ==
  LET hit == {i \in 1..Len(fallbackMap) : includes(normalizedCity, fallbackMap[i].key)}
  IN [k \in 1..Cardinality(hit) |->
        fallbackMap[CHOOSE i \in hit : Cardinality({j \in hit : j < i}) = k - 1].value]

\* .eq('iso_country', countryCode).eq('type', 'large_airport').limit(1)
CountryQuery(countryCode) ==
  Limit(Filter(Directory, {a \in Rows : /\ a.iso_country = countryCode
                                        /\ a.type = "large_airport"}), 1)

\* One call of getCityToICAO, the queries named in `failing` returning an
\* error ("primary", "secondary", "country").  The value is the result (the
\* code in the shape of a resolver result), the number of directory queries
\* issued and whether one of them failed.
getCityToICAO(cityName, failing) ==
  LET CodeResult(code) ==
        [found |-> TRUE, code |-> code, name |-> << >>, confidence |-> 0]
      normalizedCity == trim(toLowerCase(cityName))
      primary == PrimaryQuery(normalizedCity)
      secondary == SecondaryQuery(normalizedCity)
      fallback == FallbackValues(normalizedCity)
      country == CountryQuery(toUpperCase(normalizedCity))
  IN IF cityName = << >>
     THEN [result |-> NullResult, queries |-> 0, failed |-> FALSE]
     ELSE IF IsICAOPattern(cityName)
     THEN [result |-> CodeResult(cityName), queries |-> 0, failed |-> FALSE]
     ELSE IF "primary" \in failing
     THEN [result |-> NullResult, queries |-> 1, failed |-> TRUE]
     ELSE IF primary # << >>
     THEN [result |-> CodeResult(toUpperCase(trim(primary[1].ident))),
           queries |-> 1, failed |-> FALSE]
     ELSE IF "secondary" \notin failing /\ secondary # << >>
     THEN [result |-> CodeResult(toUpperCase(trim(secondary[1].ident))),
           queries |-> 2, failed |-> FALSE]
     ELSE IF fallback # << >>
     THEN [result |-> CodeResult(fallback[1]), queries |-> 2,
           failed |-> "secondary" \in failing]
     ELSE IF Len(normalizedCity) # 2
     THEN [result |-> NullResult, queries |-> 2, failed |-> "secondary" \in failing]
     ELSE IF "country" \notin failing /\ country # << >>
     THEN [result |-> CodeResult(toUpperCase(trim(country[1].ident))),
           queries |-> 3, failed |-> "secondary" \in failing]
     ELSE [result |-> NullResult, queries |-> 3,
           failed |-> failing \cap {"secondary", "country"} # {}]

\* the first handler's entry: 400 when the departure or the arrival is missing
LegacyReceive(b) ==
  /\ pc \in {"idle", "done", "legacy_done"}
  /\ served < MaxRequests
  /\ served' = served + 1
  /\ body' = b
  /\ dirQueries' = 0
  /\ fleetQueries' = 0
  /\ jets' = << >>
  /\ found' = << >>
  /\ AIRPORTS' = << >>
  /\ lastCall' = NoCall
  /\ queryFailed' = FALSE
  /\ IF DepartureInput(b) = << >> \/ ArrivalInput(b) = << >>
     THEN /\ res' = Response(400, "missing_departure_or_arrival")
          /\ pc' = "legacy_done"
          /\ calls' = << >>
     ELSE /\ res' = NoResponse
          /\ pc' = "legacy_resolve"
          /\ calls' = <<DepartureInput(b), ArrivalInput(b)>>
  /\ UNCHANGED <<callArgs, callValue>>
  /\ UNCHANGED <<airportCache, now, fleet>>

\* one await getCityToICAO(input)
LegacyResolveCall ==
  /\ pc = "legacy_resolve"
  /\ calls # << >>
  /\ \E failing \in SUBSET {"primary", "secondary", "country"} :
       \E r \in {getCityToICAO(Head(calls), failing)} :
          /\ found' = Append(found, r.result)
          /\ dirQueries' = dirQueries + r.queries
          /\ queryFailed' = (queryFailed \/ r.failed)
          /\ lastCall' = [input |-> Head(calls), result |-> r.result,
                          queries |-> r.queries, hit |-> FALSE,
                          entry |-> "absent", made |-> TRUE]
  /\ calls' = Tail(calls)
  /\ UNCHANGED <<callArgs, callValue>>
  /\ UNCHANGED <<airportCache, now, fleet, pc, body, jets, AIRPORTS, res,
                 fleetQueries, served>>

\* 400 for an unresolved city, then the query for the two airports
\* (.or(ident.eq.depCode,ident.eq.arrCode)): 500 when it fails, 400 when it
\* returns fewer than two rows or a row of the two is not in the mapping
LegacySpecificAirports ==
  /\ pc = "legacy_resolve"
  /\ calls = << >>
  /\ IF ~found[1].found \/ ~found[2].found
     THEN /\ res' = Response(400, "unresolved_city")
          /\ pc' = "legacy_done"
          /\ UNCHANGED <<AIRPORTS, dirQueries, queryFailed>>
     ELSE /\ dirQueries' = dirQueries + 1
          /\ \E ok \in BOOLEAN :
               LET depCode == toUpperCase(trim(found[1].code))
                   arrCode == toUpperCase(trim(found[2].code))
                   specificAirports == {a \in Rows : a.ident \in {depCode, arrCode}}
                   mapping == AirportIndex({depCode, arrCode})
               IN IF ~ok
                  THEN /\ res' = Response(500, "airports")
                       /\ queryFailed' = TRUE
                       /\ pc' = "legacy_done"
                       /\ UNCHANGED AIRPORTS
                  ELSE IF Cardinality(specificAirports) < 2
                  THEN /\ res' = Response(400, "unknown_airport_code")
                       /\ pc' = "legacy_done"
                       /\ UNCHANGED <<AIRPORTS, queryFailed>>
                  ELSE IF depCode \notin DOMAIN mapping \/ arrCode \notin DOMAIN mapping
                  THEN /\ res' = Response(400, "missing_in_mapping")
                       /\ pc' = "legacy_done"
                       /\ UNCHANGED <<AIRPORTS, queryFailed>>
                  ELSE /\ AIRPORTS' = mapping
                       /\ pc' = "legacy_jets"
                       /\ UNCHANGED <<res, queryFailed>>
  /\ UNCHANGED <<callArgs, callValue>>
  /\ UNCHANGED <<airportCache, now, fleet, body, jets, calls, found,
                 fleetQueries, lastCall, served>>

\* supabase.from('jet').select('*')
LegacyFetchJets ==
  /\ pc = "legacy_jets"
  /\ fleetQueries' = fleetQueries + 1
  /\ \E ok \in BOOLEAN :
       IF ok
       THEN /\ jets' = fleet
            /\ pc' = "legacy_bases"
            /\ UNCHANGED <<res, queryFailed>>
       ELSE /\ res' = Response(500, "jets")
            /\ queryFailed' = TRUE
            /\ pc' = "legacy_done"
            /\ UNCHANGED jets
  /\ UNCHANGED <<callArgs, callValue>>
  /\ UNCHANGED <<airportCache, now, fleet, body, calls, found, AIRPORTS,
                 dirQueries, lastCall, served>>

\* the object results.map builds for one jet in the first handler; its
\* price is total_price, total_cost the unrounded totalCost
LegacyQuoteOf(jet, distance) ==
  IF Knots(jet) = 0
  THEN [jet_id |-> jet.id, flight_time |-> Null, flight_time_pretty |-> << >>,
        total_cost |-> AmountNaN, total_price |-> Null, warning |-> TRUE]
  ELSE [jet_id |-> jet.id,
        flight_time |-> Amount(FlightTime(distance, Knots(jet))),
        flight_time_pretty |-> FormatFlightTime(FlightTime(distance, Knots(jet))),
        total_cost |-> RateTimes(jet, FMul(FlightTime(distance, Knots(jet)), FInt(2))),
        total_price |->
          RoundAmount(RateTimes(jet, FMul(FlightTime(distance, Knots(jet)), FInt(2)))),
        warning |-> FALSE]

\* the query for the home bases, which are added to AIRPORTS, then the
\* fleet filter, the pricing, the sort and the response
LegacyRespond ==
  /\ pc = "legacy_bases"
  /\ dirQueries' = dirQueries + 1
  /\ pc' = "legacy_done"
  /\ \E ok \in BOOLEAN :
       IF ~ok
       THEN /\ res' = Response(500, "bases")
            /\ queryFailed' = TRUE
            /\ UNCHANGED AIRPORTS
       ELSE LET uniqueHomebases == {HomeOf(jets[i]) : i \in 1..Len(jets)} \ {<< >>}
                baseAirports == AirportIndex(uniqueHomebases)
                airports == [c \in DOMAIN AIRPORTS \cup DOMAIN baseAirports |->
                               IF c \in DOMAIN baseAirports
                               THEN baseAirports[c] ELSE AIRPORTS[c]]
                depCode == toUpperCase(trim(found[1].code))
                arrCode == toUpperCase(trim(found[2].code))
                jetsNearby == JetsNearby(jets, airports, depCode)
                distance == getDistanceKm(airports[depCode].lat, airports[arrCode].lat)
                results == [i \in 1..Len(jetsNearby) |->
                              LegacyQuoteOf(jetsNearby[i], distance)]
                validatedPax ==
                  IF body.pax.k = "num" /\ body.pax.v # 0 THEN body.pax ELSE Num(4)
            IN /\ AIRPORTS' = airports
               /\ res' = [Response(200, "") EXCEPT
                            !.jets = SortResults(results),
                            !.pax = validatedPax]
               /\ UNCHANGED queryFailed
  /\ UNCHANGED <<callArgs, callValue>>
  /\ UNCHANGED <<airportCache, now, fleet, body, jets, calls, found,
                 fleetQueries, lastCall, served>>

(***************************************************************************)
(* Both handlers: one request, to either handler, out of the simple trips  *)
(* between equal and different airports, against every fleet of up to      *)
(* MaxFleet rows.                                                          *)
(***************************************************************************)
HandlerBodies ==
  LET Linate == <<"L","i","n","a","t","e">>
      Lombardia == <<"L","o","m","b","a","r","d","i","a">>
      Napoli == <<"N","a","p","o","l","i">>
      IT == <<"I","T">>
  IN {SimpleTrip(tripType, from, to, NoDate, NoDate) :
        tripType \in {"oneway", "roundtrip"},
        from \in {S_LIML, Linate}, to \in {S_LIML, S_LFPB}}
     \cup {SimpleTrip("oneway", from, S_LFPB, NoDate, NoDate) :
             from \in {<< >>, Lombardia, Napoli, IT, S_Aosta}}
     \cup {WithPax(SimpleTrip("oneway", S_LIML, S_LFPB, NoDate, NoDate), Num(2))}

InitHandlers ==
  /\ airportCache = << >>
  /\ now = 0
  /\ fleet \in FleetsOver(JetKinds, MaxFleet)
  /\ pc = "idle"
  /\ body = NoBody
  /\ jets = << >>
  /\ calls = << >>
  /\ found = << >>
  /\ AIRPORTS = << >>
  /\ res = NoResponse
  /\ dirQueries = 0
  /\ fleetQueries = 0
  /\ lastCall = NoCall
  /\ queryFailed = FALSE
  /\ served = MaxRequests - 1
  /\ callArgs = << >>
  /\ callValue = << >>

NextHandlers ==
  \/ \E b \in HandlerBodies : LegacyReceive(b)
  \/ LegacyResolveCall
  \/ LegacySpecificAirports
  \/ LegacyFetchJets
  \/ LegacyRespond
  \/ \E b \in HandlerBodies : Receive(b)
  \/ FetchJets
  \/ ResolveCall
  \/ AirportQuery
  \/ Respond

SpecHandlers == InitHandlers /\ [][NextHandlers]_vars

(***************************************************************************)
(* Arrival-time specification: one direct call of calculateArrivalTime,    *)
(* for departure times at the start, in the middle and at the end of the   *)
(* day and flight times in steps of a third of a minute.                   *)
(***************************************************************************)
MaxThirds == 200

InitArrival ==
  /\ airportCache = << >>
  /\ now = 0
  /\ fleet = << >>
  /\ pc = "idle"
  /\ body = NoBody
  /\ jets = << >>
  /\ calls = << >>
  /\ found = << >>
  /\ AIRPORTS = << >>
  /\ res = NoResponse
  /\ dirQueries = 0
  /\ fleetQueries = 0
  /\ lastCall = NoCall
  /\ queryFailed = FALSE
  /\ served = 0
  /\ callArgs \in
       [departureTime :
          {<< >>}
          \cup {padStart(toString(h)) \o <<":">> \o padStart(toString(m)) :
                  h \in {0, 9, 23}, m \in {0, 30, 59}},
        flightTimeHours : {Frac(n, 180) : n \in 0..MaxThirds} \cup {FInt(25)}]
  /\ callValue = << >>

CallCalculateArrivalTime ==
  /\ pc = "idle"
  /\ pc' = "returned"
  /\ callValue' = calculateArrivalTime(callArgs.departureTime, callArgs.flightTimeHours)
  /\ UNCHANGED <<airportCache, now, fleet, body, jets, calls, found, AIRPORTS, res,
                 dirQueries, fleetQueries, lastCall, queryFailed, served, callArgs>>

SpecArrival == InitArrival /\ [][CallCalculateArrivalTime]_vars

(***************************************************************************)
(* Properties                                                              *)
(***************************************************************************)
\* the requests C1 speaks of: a simple trip without departure or arrival, a
\* multi-leg trip with a leg lacking an end or with too few or too many legs
MalformedRequest(b) ==
  IF TripTypeOf(b) = "multileg"
  THEN /\ b.hasLegs
       /\ \/ Len(b.legs) < 2
          \/ Len(b.legs) > 10
          \/ \E i \in 1..Len(b.legs) : b.legs[i].from = << >> \/ b.legs[i].to = << >>
  ELSE DepartureInput(b) = << >> \/ ArrivalInput(b) = << >>

\* C1: a request that fails validation is answered 400 (validation error) at
\* once, and no directory query and no fleet query is issued while it is
\* handled.
C1_ValidationBeforeQueries ==
  (pc # "idle" /\ MalformedRequest(body)) =>
    /\ pc = "done"
    /\ res.status = 400
    /\ res.error = "validation"
    /\ dirQueries = 0
    /\ fleetQueries = 0

\* a multi-leg request of more than 10 legs has been answered
C1_Witness ==
  /\ pc = "done"
  /\ TripTypeOf(body) = "multileg"
  /\ Len(body.legs) > 10
  /\ res.status = 400
  /\ fleetQueries = 0

\* C2: a call whose input matches the 4-uppercase-letter pattern returns the
\* input as code with confidence 100 and issues no directory query, whatever
\* calls were made before.
C2_CodeIsReturnedAsIs ==
  (lastCall.made /\ IsICAOPattern(lastCall.input)) =>
    /\ lastCall.result.found
    /\ lastCall.result.code = lastCall.input
    /\ lastCall.result.confidence = 100
    /\ lastCall.queries = 0

\* a simple (one-way or round-trip) request has been answered with quotes
SimpleSuccess ==
  /\ pc = "done"
  /\ res.status = 200
  /\ TripTypeOf(body) # "multileg"

QuoteIds == {res.jets[i].jet_id : i \in 1..Len(res.jets)}

\* the distance from the departure airport to the arrival airport, 1/100 km
RouteDistance ==
  Abs(AIRPORTS[found[1].code].lat - AIRPORTS[found[2].code].lat)

\* the distance from the departure airport to the home base of jets[j]
BaseDistance(j) ==
  Abs(AIRPORTS[found[1].code].lat - AIRPORTS[HomeOf(jets[j])].lat)

\* C3: for a one-way or round-trip request a jet is quoted if and only if its
\* home base is in the airport index at most 500 km (50000 hundredths) from
\* the departure airport; an unresolvable home base raises no error: the
\* only internal errors are those of an unresolved departure or arrival.
C3_FleetFilter ==
  /\ SimpleSuccess =>
       \A j \in 1..Len(jets) :
         jets[j].id \in QuoteIds <=>
           (HomeOf(jets[j]) \in DOMAIN AIRPORTS /\ BaseDistance(j) <= 50000)
  /\ (pc = "done" /\ TripTypeOf(body) # "multileg" /\ res.error = "internal") =>
       \/ ~found[1].found
       \/ ~found[2].found
       \/ found[1].code \notin DOMAIN AIRPORTS
       \/ found[2].code \notin DOMAIN AIRPORTS

\* a jet based exactly 500 km away is quoted next to a jet whose home base
\* is not in the index
C3_Witness ==
  /\ SimpleSuccess
  /\ \E j \in 1..Len(jets) :
       /\ HomeOf(jets[j]) \in DOMAIN AIRPORTS
       /\ BaseDistance(j) = 50000
       /\ jets[j].id \in QuoteIds
  /\ \E j \in 1..Len(jets) :
       /\ HomeOf(jets[j]) \notin DOMAIN AIRPORTS
       /\ jets[j].id \notin QuoteIds

\* the price as the response carries it: JSON has no NaN, it is sent as null
NullPriced(q) == q.total_price.k \in {"null", "NaN"}

\* C4: in every success response the quotes are in ascending order of total
\* price, and every null-priced quote comes after every numeric one.
C4_AscendingNullsLast ==
  (pc = "done" /\ res.status = 200) =>
    \A i, j \in 1..Len(res.jets) :
      i < j =>
        /\ ~(NullPriced(res.jets[i]) /\ ~NullPriced(res.jets[j]))
        /\ (~NullPriced(res.jets[i]) /\ ~NullPriced(res.jets[j])) =>
             res.jets[i].total_price.v <= res.jets[j].total_price.v

\* C5: two quotes of the same total price (two null prices included) come
\* in the order of their jets in the fleet (the ids are the fleet positions).
C5_StableRanking ==
  (pc = "done" /\ res.status = 200) =>
    \A i, j \in 1..Len(res.jets) :
      (/\ i < j
       /\ \/ NullPriced(res.jets[i]) /\ NullPriced(res.jets[j])
          \/ /\ ~NullPriced(res.jets[i])
             /\ ~NullPriced(res.jets[j])
             /\ res.jets[i].total_price.v = res.jets[j].total_price.v)
      => res.jets[i].jet_id < res.jets[j].jet_id

\* the jets the trip type leaves eligible, their speed aside: within reach of
\* the departure for a simple trip, of sufficient range for a multi-leg trip
EligibleJet(j) ==
  IF TripTypeOf(body) = "multileg"
  THEN MaxLegDistance(ResolvedLegs(body.legs, found), AIRPORTS) <= JetRange(jets[j])
  ELSE HomeOf(jets[j]) \in DOMAIN AIRPORTS /\ BaseDistance(j) <= 50000

\* C6: in every success response of every trip type each eligible jet without
\* a speed is listed with null flight time, null price and a warning.
C6_SpeedlessJetListed ==
  (pc = "done" /\ res.status = 200) =>
    \A j \in 1..Len(jets) :
      (Knots(jets[j]) = 0 /\ EligibleJet(j)) =>
        \E i \in 1..Len(res.jets) :
          /\ res.jets[i].jet_id = jets[j].id
          /\ res.jets[i].total_price.k = "null"
          /\ res.jets[i].flight_time.k = "null"
          /\ res.jets[i].warning

\* C7: a quoted jet whose hourly rate is absent or zero has a null price and
\* a warning, never a numeric price.
C7_RatelessJetUnavailable ==
  SimpleSuccess =>
    \A i \in 1..Len(res.jets) :
      LET jet == jets[res.jets[i].jet_id]
      IN (jet.hourly_rate.k # "num" \/ jet.hourly_rate.v = 0) =>
           /\ NullPriced(res.jets[i])
           /\ res.jets[i].warning

\* hourlyRate * flightTime for the route of the request, unrounded
OneLegCost(jet) ==
  FMul(FInt(jet.hourly_rate.v), Frac(5 * RouteDistance, 926 * Knots(jet)))

Priced(q) == q.total_price.k = "num"

RequestDaysBetween == DaysBetween(TripTypeOf(body), body.date, body.returnDate)

RoundTripSuccess == SimpleSuccess /\ TripTypeOf(body) = "roundtrip"

C10_MultiDayRoundTrip ==
  (RoundTripSuccess /\ RequestDaysBetween >= 2) =>
    \A i \in 1..Len(res.jets) :
      Priced(res.jets[i]) =>
        LET jet == jets[res.jets[i].jet_id]
            oneWay == TotalCost(jet, RouteDistance, "oneway", 0)
            parkingCostPerDay ==
              IF jet.parking_cost_per_day = 0 THEN 500 ELSE jet.parking_cost_per_day
            surcharge ==
              parkingCostPerDay * RequestDaysBetween + jet.hourly_rate.v * 2
        IN res.jets[i].total_cost.f =
             FAdd(FMul(FInt(2), oneWay.f), FInt(surcharge))

\* a round trip of three days quoted for a jet without a parking cost of its own
C10_Witness ==
  /\ RoundTripSuccess
  /\ RequestDaysBetween = 3
  /\ \E i \in 1..Len(res.jets) :
       /\ Priced(res.jets[i])
       /\ res.jets[i].total_price.v > 0
       /\ jets[res.jets[i].jet_id].parking_cost_per_day = 0

\* a multi-leg request has been answered with quotes
MultilegSuccess ==
  /\ pc = "done"
  /\ res.status = 200
  /\ TripTypeOf(body) = "multileg"

\* the legs of the request with their airports
TourLegs == ResolvedLegs(body.legs, found)

\* the distance of leg number i, in 1/100 km
TourLegDistance(i) ==
  getDistanceKm(AIRPORTS[TourLegs[i].from_icao].lat, AIRPORTS[TourLegs[i].to_icao].lat)

\* C11: in a multi-leg response a jet is listed if and only if it has a
\* usable speed and no leg's distance exceeds its range (range_km, 3000 when
\* absent), and every listed quote has can_complete_tour = true.
C11_RangeFeasibility ==
  MultilegSuccess =>
    /\ \A j \in 1..Len(jets) :
         jets[j].id \in QuoteIds <=>
           /\ Knots(jets[j]) # 0
           /\ \A i \in 1..Len(TourLegs) :
                TourLegDistance(i) <=
                  100 * (IF jets[j].range_km = 0 THEN 3000 ELSE jets[j].range_km)
    /\ \A i \in 1..Len(res.jets) : res.jets[i].can_complete_tour

\* the flight cost of the legs from leg number i on, as C12 states it
RECURSIVE TourFlightCost(_, _)
TourFlightCost(jet, i) ==
  IF i > Len(TourLegs) THEN FInt(0)
  ELSE FAdd(FMul(FInt(jet.hourly_rate.v),
                 Frac(250 * MathRound(Frac(TourLegDistance(i), 100)),
                      463 * Knots(jet))),
            TourFlightCost(jet, i + 1))

\* the hours between leg i and leg i + 1 when both carry a date
TourGap(i) ==
  (formatDate(body.legs[i + 1].date).day - formatDate(body.legs[i].date).day) * 24

\* the waiting cost of the pairs of legs from pair (i, i + 1) on, as C12
\* states it: nothing for a pair with an undated leg
RECURSIVE TourWaitingCost(_, _)
TourWaitingCost(jet, i) ==
  IF i >= Len(TourLegs) THEN FInt(0)
  ELSE FAdd(IF /\ ~formatDate(body.legs[i].date).isNull
               /\ ~formatDate(body.legs[i + 1].date).isNull
               /\ TourGap(i) > 2
            THEN FMul(FInt(jet.hourly_rate.v), Frac(3 * TourGap(i), 10))
            ELSE FInt(0),
            TourWaitingCost(jet, i + 1))

\* the flight from the last destination to the home base
TourReturnCost(jet) ==
  IF HomeOf(jet) \in DOMAIN AIRPORTS
  THEN FMul(FInt(jet.hourly_rate.v),
            Frac(5 * Abs(AIRPORTS[TourLegs[Len(TourLegs)].to_icao].lat
                         - AIRPORTS[HomeOf(jet)].lat),
                 926 * Knots(jet)))
  ELSE FInt(0)

\* C12: the unrounded total of a multi-leg quote is the sum of hourlyRate *
\* legFlightTime over the legs, plus hourlyRate * 0.3 * waitingHours for each
\* pair of consecutive legs more than 2 hours apart (nothing when a leg of
\* the pair has no date), plus the return flight to the home base.
C12_MultilegTotal ==
  MultilegSuccess =>
    \A i \in 1..Len(res.jets) :
      Priced(res.jets[i]) =>
        LET jet == jets[res.jets[i].jet_id]
        IN res.jets[i].total_cost.f =
             FAdd(FAdd(TourFlightCost(jet, 1), TourWaitingCost(jet, 1)),
                  TourReturnCost(jet))

\* the request being handled has passed validateFlightRequest
Accepted ==
  /\ pc # "idle"
  /\ res.error # "validation"

\* C13: the legs of an accepted multi-leg request are in chronological
\* order: of any two legs that carry a date, the earlier leg has the
\* strictly earlier date, also when undated legs lie between them.
C13_LegsChronological ==
  (Accepted /\ TripTypeOf(body) = "multileg") =>
    \A i, j \in 1..Len(body.legs) :
      (/\ i < j
       /\ body.legs[i].date.present
       /\ body.legs[j].date.present)
      => Hours(body.legs[i].date) < Hours(body.legs[j].date)

\* C14: a request whose pax is present and not within 1..50 is rejected
\* with a validation error; a request without pax is answered with pax = 4.
C14_PaxRange ==
  /\ (pc # "idle" /\ body.pax.k = "num" /\ (body.pax.v < 1 \/ body.pax.v > 50))
       => (pc = "done" /\ res.status = 400 /\ res.error = "validation")
  /\ (SimpleSuccess /\ body.pax.k = "undefined") => res.pax = Num(4)

\* C15: a round-trip request without a return date is rejected with a
\* validation error and never reaches pricing.
C15_ReturnDateRequired ==
  (pc # "idle" /\ TripTypeOf(body) = "roundtrip" /\ ~body.returnDate.present)
    => (pc = "done" /\ res.status = 400 /\ res.error = "validation")

\* C16: every resolved location has a confidence score within [0, 100].
C16_ConfidenceRange ==
  /\ lastCall.result.found => lastCall.result.confidence \in 0..100
  /\ \A i \in 1..Len(found) : found[i].found => found[i].confidence \in 0..100

\* a step that makes one call of getCityToICAOImproved
ResolveStep ==
  /\ pc \in {"collect", "lookup"}
  /\ calls # << >>
  /\ Len(found') = Len(found) + 1

\* the cache key of the call a ResolveStep makes
CallKey == CacheKey(normalizeInput(Head(calls)), << >>)

\* the cache holds an unexpired entry for the key of the call
CallFresh ==
  /\ CallKey \in DOMAIN airportCache
  /\ now - airportCache[CallKey].timestamp < 3600000

\* the call returns the cached value, issues no query and leaves the cache
ServedFromCache ==
  /\ lastCall'.queries = 0
  /\ lastCall'.result = airportCache[CallKey].data
  /\ airportCache' = airportCache

\* a successful call leaves its result in the cache with the time of the call
Overwritten ==
  lastCall'.result.found =>
    /\ CallKey \in DOMAIN airportCache'
    /\ airportCache'[CallKey] = [data |-> lastCall'.result, timestamp |-> now]

\* C17 as stated: a call is served from the cache, without a query, exactly
\* when the cache holds an entry for its key less than an hour old;
\* otherwise the directory is queried and a successful result overwrites the
\* entry with the time of the call.
C17_CacheOrQuery ==
  [][ResolveStep =>
       /\ CallFresh => ServedFromCache
       /\ ~CallFresh => (lastCall'.queries > 0 /\ Overwritten)]_vars

\* C17 amended: as stated, except that a call with a 4-uppercase-letter code
\* and no unexpired entry issues no query and writes the code itself, with
\* confidence 100, into the cache.
C17_CacheOrQueryUnlessCode ==
  [][ResolveStep =>
       /\ CallFresh => ServedFromCache
       /\ ~CallFresh =>
            /\ Overwritten
            /\ IF IsICAOPattern(Head(calls))
               THEN /\ lastCall'.queries = 0
                    /\ lastCall'.result.code = Head(calls)
                    /\ lastCall'.result.confidence = 100
               ELSE lastCall'.queries > 0]_vars

\* a call that found its entry expired has queried the directory and put the
\* new result in its place, and another call has been served from the cache
C17_Witness ==
  /\ lastCall.made
  /\ lastCall.entry = "expired"
  /\ lastCall.queries > 0
  /\ lastCall.result.found
  /\ airportCache[CacheKey(normalizeInput(lastCall.input), << >>)]
       = [data |-> lastCall.result, timestamp |-> now]

\* C18: a call of getCityToICAOImproved for which at least one of the
\* queries it issued succeeded with at least one candidate row returns a
\* resolved location, whatever the other queries did and also when a row
\* lacks its municipality or name.
C18_ResolvedWhenCandidate ==
  (lastCall.made /\ lastCall.hit) => lastCall.result.found

\* C19: when a directory query or the fleet query has failed while handling
\* a request that passed validation, the response is the 500 failure, never
\* a 400 or a success.
C19_QueryFailureIs500 ==
  (pc = "done" /\ queryFailed) => res.status = 500

\* the departure and the arrival (or every end of every leg) are resolved
ResolutionSucceeded ==
  /\ Len(found) = Len(InputsOf(body))
  /\ \A i \in 1..Len(found) : found[i].found

\* C20: the fleet store is queried at most once per request and exactly once
\* when the request is priced, only after the resolution of the locations
\* has succeeded; a request with an unresolved departure or arrival issues
\* no fleet query.
C20_FleetAfterResolution ==
  /\ fleetQueries <= 1
  /\ (pc = "done" /\ res.status = 200) => fleetQueries = 1
  /\ (fleetQueries = 1 /\ pc \in {"jets", "collect"}) => ResolutionSucceeded
  /\ (pc = "done" /\ res.error = "airport_not_found") => fleetQueries = 0

\* C21: in every success response, of a simple trip or of a multi-leg
\* trip, every quote belongs to a jet whose home base is in the airport
\* index; no jet with a missing or unknown home base is quoted.
C21_QuotedJetsHaveBase ==
  (pc = "done" /\ res.status = 200) =>
    \A i \in 1..Len(res.jets) :
      HomeOf(jets[res.jets[i].jet_id]) \in DOMAIN AIRPORTS

\* the two ends of a simple trip have been resolved to one and the same
\* airport of the directory
SameAirport ==
  /\ TripTypeOf(body) # "multileg"
  /\ Len(found) = 2
  /\ found[1].found
  /\ found[2].found
  /\ toUpperCase(trim(found[1].code)) = toUpperCase(trim(found[2].code))
  /\ \E a \in Rows : a.ident = found[1].code

\* C22: in both handlers a request whose departure and arrival resolve to
\* the same airport of the directory, no store query failing, is answered
\* 200, and every priced quote of the answer has flight time 0 and price 0.
C22_SameAirportIsFree ==
  (pc \in {"done", "legacy_done"} /\ SameAirport /\ ~queryFailed) =>
    /\ res.status = 200
    /\ \A i \in 1..Len(res.jets) :
         Priced(res.jets[i]) =>
           /\ res.jets[i].flight_time = Amount(FInt(0))
           /\ res.jets[i].total_price = Num(0)

\* the last call of getCityToICAOImproved went through the tiers, and every
\* query it issued succeeded
TierCall ==
  /\ lastCall.made
  /\ pc \in {"collect", "lookup", "done"}
  /\ ~queryFailed
  /\ lastCall.entry # "fresh"
  /\ lastCall.input # << >>
  /\ ~IsICAOPattern(lastCall.input)

\* the classification of the airport the last call returned
ReturnedType == (CHOOSE a \in Rows : a.ident = lastCall.result.code).type

\* C23: first match wins.  When the large-airport tier yields a candidate
\* for the input the returned airport is a large airport; a medium airport
\* is returned only when the large tier yields none, a small airport only
\* when the large and the medium tier yield none.
C23_FirstMatchWins ==
  TierCall =>
    LET c == normalizeInput(lastCall.input)
    IN /\ TierQuery("large_airport", c) # << >> =>
            lastCall.result.found /\ ReturnedType = "large_airport"
       /\ (lastCall.result.found /\ ReturnedType = "medium_airport") =>
            TierQuery("large_airport", c) = << >>
       /\ (lastCall.result.found /\ ReturnedType = "small_airport") =>
            /\ TierQuery("large_airport", c) = << >>
            /\ TierQuery("medium_airport", c) = << >>

\* what a call for the input returns when the cache is empty and every
\* query succeeds
FreshResult(input) == getCityToICAOImproved(input, << >>, << >>, 0, {}).result

SameResolution(x, y) ==
  /\ x.found = y.found
  /\ x.code = y.code
  /\ x.confidence = y.confidence

\* C24: cache writes are idempotent recomputations.  While no query fails,
\* every call returns the code and the confidence a call for its input
\* returns on an empty cache, whatever was resolved before it, and every
\* cache entry holds what each input of the request with that key writes.
C24_CacheIdempotent ==
  (pc \in {"collect", "lookup", "done"} /\ ~queryFailed) =>
    /\ lastCall.made => SameResolution(lastCall.result, FreshResult(lastCall.input))
    /\ \A i \in 1..Len(InputsOf(body)) :
         LET input == InputsOf(body)[i]
             key == CacheKey(normalizeInput(input), << >>)
         IN (key \in DOMAIN airportCache /\ FreshResult(input).found) =>
              SameResolution(airportCache[key].data, FreshResult(input))

\* C25: the cache is written only on successful resolution.  A call that
\* returns not-found leaves the cache as it was, so that no entry of the
\* cache is ever a not-found entry; such a call for a non-empty input has
\* queried the directory, and leaves no unexpired entry for its key, so
\* that the next call for the input queries the directory again.
C25_NotFoundLeavesCache ==
  [][/\ \A k \in DOMAIN airportCache' : airportCache'[k].data.found
     /\ (ResolveStep /\ ~lastCall'.result.found) =>
          /\ airportCache' = airportCache
          /\ Head(calls) # << >> =>
               /\ lastCall'.queries > 0
               /\ CacheEntry(Head(calls), << >>, airportCache', now') # "fresh"]_vars

\* a call for a non-empty input has returned not-found after querying the
\* directory, next to a cache that holds the results of successful calls
C25_Witness ==
  /\ lastCall.made
  /\ pc \in {"collect", "lookup", "done"}
  /\ ~lastCall.result.found
  /\ lastCall.input # << >>
  /\ lastCall.queries > 0
  /\ airportCache # << >>
  /\ CacheKey(normalizeInput(lastCall.input), << >>) \notin DOMAIN airportCache

\* the minute of the day of the departure time of the call
CallDepartureMinutes ==
  Number(SubSeq(callArgs.departureTime, 1, 2)) * 60
  + Number(SubSeq(callArgs.departureTime, 4, 5))

\* C26: for a valid departure time HH:MM and a flight time >= 0,
\* calculateArrivalTime returns a clock time HH:MM with the hour in 00..23
\* and the minute in 00..59, which is the departure time plus the flight
\* time, rounded to the minute and wrapped at 24 hours.
C26_ArrivalTimeValid ==
  (pc = "returned" /\ callArgs.departureTime # << >>) =>
    /\ Len(callValue) = 5
    /\ callValue[3] = ":"
    /\ Number(SubSeq(callValue, 1, 2)) \in 0..23
    /\ Number(SubSeq(callValue, 4, 5)) \in 0..59
    /\ Number(SubSeq(callValue, 1, 2)) * 60 + Number(SubSeq(callValue, 4, 5))
         = MathRound(FAdd(FInt(CallDepartureMinutes),
                          FMul(callArgs.flightTimeHours, FInt(60)))) % 1440

\* the flight time of a quote rounded to the nearest minute
QuoteMinutes(q) == MathRound(FMul(q.flight_time.f, FInt(60)))

\* C27: the formatted flight time of every priced quote is "{H}h {M}min",
\* the hours part left out exactly when H = 0, with M in 0..59 and
\* H * 60 + M the flight time rounded to the nearest minute.
C27_FlightTimeFormat ==
  (pc \in {"done", "legacy_done"} /\ res.status = 200) =>
    \A i \in 1..Len(res.jets) :
      Priced(res.jets[i]) =>
        \E H \in 0..(QuoteMinutes(res.jets[i]) \div 60), M \in 0..59 :
          /\ H * 60 + M = QuoteMinutes(res.jets[i])
          /\ res.jets[i].flight_time_pretty =
               (IF H = 0 THEN << >> ELSE toString(H) \o <<"h"," ">>)
               \o toString(M) \o <<"m","i","n">>

\* a well-formed code that is not the ident of any row of the directory
UnknownCode(input) ==
  /\ IsICAOPattern(input)
  /\ \A a \in Rows : a.ident # input

\* C28: the handler does not reach the fleet filter and the pricing of a
\* one-way or round trip with the departure or the arrival code missing from
\* the airport index, and a valid request naming a well-formed code that the
\* directory does not contain is answered 400 (airport not found), no store
\* query failing.
C28_UnknownCodeIs400 ==
  /\ (pc = "lookup" /\ calls = << >> /\ TripTypeOf(body) # "multileg") =>
       /\ found[1].found /\ found[1].code \in DOMAIN AIRPORTS
       /\ found[2].found /\ found[2].code \in DOMAIN AIRPORTS
  /\ (/\ pc = "done"
      /\ TripTypeOf(body) # "multileg"
      /\ validateFlightRequest(body) = << >>
      /\ ~queryFailed
      /\ UnknownCode(DepartureInput(body)) \/ UnknownCode(ArrivalInput(body))) =>
       /\ res.status = 400
       /\ res.error = "airport_not_found"

\* the handler is between the receipt of a request and its response
Handling == pc \in {"jets", "collect", "lookup"}

\* C29: every request terminates with exactly one response, of status 200,
\* 400 or 500, whatever its body and whichever store queries fail: nothing
\* is sent while the request is handled, the response sent at the end of
\* the handling has one of the three statuses and is not replaced before the
\* next request, and the handling ends.
C29_OneResponse ==
  /\ [](Handling => res = NoResponse)
  /\ [](pc = "done" => res.status \in {200, 400, 500})
  /\ [][served' = served => (res' = res \/ (Handling /\ pc' = "done"))]_vars
  /\ (Handling ~> pc = "done")

\* a request that went through every query has been answered
C29_Witness ==
  /\ pc = "done"
  /\ res.status \in {200, 400, 500}
  /\ fleetQueries = 1
  /\ dirQueries > 0
  /\ Len(found) = Len(InputsOf(body))

\* C30: every round trip that passes validation with both date and returnDate
\* present is priced with daysBetween >= 1; a return on the calendar day of
\* the departure never reaches pricing.
C30_BothDatesAtLeastOneDay ==
  (RoundTripSuccess /\ body.date.present /\ body.returnDate.present) =>
    RequestDaysBetween >= 1

====
